---- MODULE Spec2Model ----
(***************************************************************************)
(* A model of the sato Protobuf <-> ROS transcoder: the Protobuf codec,    *)
(* the ROS codec (runtime/ros.h), the field library (runtime/fields.h,     *)
(* vectors.h, union.h) and the per-message code that the compiler emits    *)
(* (compiler/message_gen.cc), run on a concrete schema.                    *)
(*                                                                         *)
(* Bytes are integers 0..255 and buffers are sequences of bytes.  All      *)
(* scalar element types of the schema are 4 bytes wide; a 32-bit value is  *)
(* kept as the signed integer with the same bit pattern.  The host is      *)
(* little-endian (ros.h copies values with memcpy).                        *)
(***************************************************************************)
EXTENDS Integers, Sequences, FiniteSets, TLC

\* ------------------------------------------------------------------ bounds
\* Wire records per Protobuf input.
MaxItems == 2
\* Elements in one packed record of the input.
MaxVecLen == 2
\* Bytes in a string of the input.
MaxStrLen == 1

\* ---------------------------------------------------------------- statuses
OK == "ok"

\* What a build can do when the code runs into undefined behaviour (a copy
\* past the end of an allocation): stop the process, or carry on.
UBOutcomes == {"crash", "silent"}

\* ------------------------------------------------ little-endian 32-bit values
\* memcpy of a 4-byte value on a little-endian host.
LE32(v) ==
  << v % 256, (v \div 256) % 256, (v \div 65536) % 256, (v \div 16777216) % 256 >>

FromLE32(d, i) ==
  d[i] + 256 * d[i + 1] + 65536 * d[i + 2]
    + 16777216 * (IF d[i + 3] >= 128 THEN d[i + 3] - 256 ELSE d[i + 3])

\* sizeof(T) of the primitive element types of the schema.
SizeofT == 4

\* ======================================================= Protobuf codec ====
\* Wire types and the tag layout.
kVarint == 0
kFixed64 == 1
kLengthDelimited == 2
kFixed32 == 5
kFieldIdShift == 3

\* Longest varint accepted.
kMaxVarintBytes == 10

MakeTag(number, wire_type) == number * 8 + wire_type

ZigZag(n) == IF n >= 0 THEN 2 * n ELSE -2 * n - 1

UnZigZag(u) == IF u % 2 = 0 THEN u \div 2 ELSE -(u \div 2) - 1

Encoded(v, Signed) == IF Signed THEN ZigZag(v) ELSE v

RECURSIVE RawVarint(_)
\* Little-endian base-128, high bit = continuation.  A negative value is
\* sign-extended to 64 bits, which always takes ten bytes.
RawVarint(u) ==
  IF u < 0
  THEN << (u % 128) + 128, ((u \div 128) % 128) + 128,
          ((u \div 16384) % 128) + 128, ((u \div 2097152) % 128) + 128,
          ((u \div 268435456) % 128) + 128, 255, 255, 255, 255, 1 >>
  ELSE IF u < 128 THEN << u >>
  ELSE << (u % 128) + 128 >> \o RawVarint(u \div 128)

RECURSIVE UnsignedVarintSize(_)
UnsignedVarintSize(u) ==
  IF u < 0 THEN kMaxVarintBytes
  ELSE IF u < 128 THEN 1
  ELSE 1 + UnsignedVarintSize(u \div 128)

VarintSize(v, Signed) == UnsignedVarintSize(Encoded(v, Signed))

TagSize(number, wire_type) == UnsignedVarintSize(MakeTag(number, wire_type))

LengthDelimitedSize(number, length) ==
  TagSize(number, kLengthDelimited) + UnsignedVarintSize(length) + length

\* --- writing: the bytes each call appends to the (auto-growing) buffer
SerializeRawVarint(v, Signed) == RawVarint(Encoded(v, Signed))

SerializeVarint(number, v, Signed) ==
  RawVarint(MakeTag(number, kVarint)) \o RawVarint(Encoded(v, Signed))

SerializeFixed(number, v) == RawVarint(MakeTag(number, kFixed32)) \o LE32(v)

SerializeLengthDelimitedHeader(number, length) ==
  RawVarint(MakeTag(number, kLengthDelimited)) \o RawVarint(length)

SerializeLengthDelimited(number, data) ==
  SerializeLengthDelimitedHeader(number, Len(data)) \o data

\* --- reading: a borrowed byte slice with a cursor
ProtoBuffer(bytes, ub) == [data |-> bytes, pos |-> 0, ub |-> ub]

Eof(b) == b.pos >= Len(b.data)

RECURSIVE VarintLen(_, _, _)
\* Bytes of the varint that starts at index i; 0 when the buffer ends first.
VarintLen(data, i, n) ==
  IF i > Len(data) THEN 0
  ELSE IF data[i] < 128 THEN n + 1
  ELSE VarintLen(data, i + 1, n + 1)

RECURSIVE VarintBits(_, _, _, _)
\* The low 32 bits of the n-byte varint at index i (j counts the groups done).
VarintBits(data, i, n, j) ==
  IF j >= n \/ j > 4 THEN 0
  ELSE LET g == data[i + j] % 128
       IN  (CASE j = 0 -> g
              [] j = 1 -> g * 128
              [] j = 2 -> g * 16384
              [] j = 3 -> g * 2097152
              [] OTHER -> (g % 8) * 268435456
                            + (IF (g \div 8) % 2 = 1 THEN -2147483647 - 1 ELSE 0))
           + VarintBits(data, i, n, j + 1)

DeserializeVarint(b, Signed) == 
  LET Decoded(raw) == IF Signed THEN UnZigZag(raw) ELSE raw
      Got(n) ==
        IF n = 0 THEN [st |-> "Truncated", v |-> 0, b |-> b]
        ELSE IF n > kMaxVarintBytes
        THEN [st |-> "MalformedVarint", v |-> 0, b |-> b]
        ELSE [st |-> OK,
              v |-> Decoded(VarintBits(b.data, b.pos + 1, n, 0)),
              b |-> [b EXCEPT !.pos = @ + n]]
  IN  Got(VarintLen(b.data, b.pos + 1, 0))

DeserializeFixed(b) ==
  IF b.pos + SizeofT > Len(b.data) THEN [st |-> "Truncated", v |-> 0, b |-> b]
  ELSE [st |-> OK, v |-> FromLE32(b.data, b.pos + 1),
        b |-> [b EXCEPT !.pos = @ + SizeofT]]

\* A length varint and that many bytes: the body is returned as a span.
DeserializeLengthDelimited(b) == 
  LET Got(l) ==
        IF l.st # OK THEN [st |-> l.st, v |-> << >>, b |-> b]
        ELSE IF l.v < 0 \/ l.b.pos + l.v > Len(b.data)
        THEN [st |-> "Truncated", v |-> << >>, b |-> b]
        ELSE [st |-> OK,
              v |-> SubSeq(b.data, l.b.pos + 1, l.b.pos + l.v),
              b |-> [l.b EXCEPT !.pos = @ + l.v]]
  IN  Got(DeserializeVarint(b, FALSE))

DeserializeString(b) == DeserializeLengthDelimited(b)

\* Advance past the value of an unknown tag.
SkipTag(b, tag) == 
  LET wt == tag % 8
      Skipped(r) == [st |-> r.st, b |-> r.b]
  IN  CASE wt = kVarint -> Skipped(DeserializeVarint(b, FALSE))
        [] wt = kFixed64 ->
             IF b.pos + 8 > Len(b.data) THEN [st |-> "Truncated", b |-> b]
             ELSE [st |-> OK, b |-> [b EXCEPT !.pos = @ + 8]]
        [] wt = kFixed32 ->
             IF b.pos + 4 > Len(b.data) THEN [st |-> "Truncated", b |-> b]
             ELSE [st |-> OK, b |-> [b EXCEPT !.pos = @ + 4]]
        [] wt = kLengthDelimited -> Skipped(DeserializeLengthDelimited(b))
        [] OTHER -> [st |-> "UnsupportedFeature", b |-> b]

\* ============================================================ ROS codec ====
\* Buffer: mem holds the bytes of the allocation that are known (for a buffer
\* being written, the addr_ bytes written so far; for a borrowed buffer being
\* read, all size_ bytes); overrun records a write past the allocation.
kInitialSize == 16

OwnedBuffer ==
  [owned_ |-> TRUE, size_ |-> kInitialSize, mem |-> << >>, addr_ |-> 0,
   overrun |-> FALSE, ub |-> "silent"]

FixedBuffer(bytes, ub) ==
  [owned_ |-> FALSE, size_ |-> Len(bytes), mem |-> bytes, addr_ |-> 0,
   overrun |-> FALSE, ub |-> ub]

\* A HasSpaceFor that lets every write through.
HasSpaceForUnchecked(b, n) == [st |-> OK, b |-> b]

\* The buffer is doubled once when the bytes do not fit.
HasSpaceFor(b, n) ==
  IF b.addr_ + n > b.size_
  THEN IF b.owned_ THEN [st |-> OK, b |-> [b EXCEPT !.size_ = @ * 2]]
       ELSE [st |-> "Internal", b |-> b]
  ELSE [st |-> OK, b |-> b]

Check(b, n) == n >= 0 /\ b.addr_ + n <= b.size_

\* memcpy of bytes at the cursor of a buffer being written.
Store(b, bytes) ==
  [b EXCEPT !.mem = @ \o bytes,
            !.addr_ = @ + Len(bytes),
            !.overrun = @ \/ (b.addr_ + Len(bytes) > b.size_)]

\* Write<T>(Buffer&, const T&)
Write(b, v) == 
  LET Got(h) == IF h.st # OK THEN h ELSE [st |-> OK, b |-> Store(h.b, LE32(v))]
  IN  Got(HasSpaceFor(b, SizeofT))

\* Read<T>(const Buffer&, T&)
Read(b, old) ==
  IF ~Check(b, SizeofT) THEN [st |-> "Internal", v |-> old, b |-> b]
  ELSE [st |-> OK, v |-> FromLE32(b.mem, b.addr_ + 1),
        b |-> [b EXCEPT !.addr_ = @ + SizeofT]]

\* Write(Buffer&, const std::string&)
WriteString(b, s) == 
  LET Got(h) ==
        IF h.st # OK THEN h ELSE [st |-> OK, b |-> Store(h.b, LE32(Len(s)) \o s)]
  IN  Got(HasSpaceFor(b, 4 + Len(s)))

\* The byte at offset i (from 0) of a buffer being read; a read past the end
\* of the memory is undefined and is taken to yield 0 when the run goes on.
Peek(b, i) == IF i < Len(b.mem) THEN b.mem[i + 1] ELSE 0

\* Read(const Buffer&, std::string&): the length is checked on its own, not
\* together with the 4 bytes of the prefix.
ReadString(b, old) == 
  IF ~Check(b, 4) THEN [st |-> "Internal", v |-> old, b |-> b]
  ELSE LET Got(size) ==
             IF ~Check(b, size) THEN [st |-> "Internal", v |-> old, b |-> b]
             ELSE IF b.addr_ + 4 + size > Len(b.mem) /\ b.ub = "crash"
             THEN [st |-> "crash", v |-> old, b |-> b]
             ELSE [st |-> OK,
                   v |-> [k \in 1..size |-> Peek(b, b.addr_ + 4 + k - 1)],
                   b |-> [b EXCEPT !.addr_ = @ + 4 + size]]
       IN  Got(FromLE32(b.mem, b.addr_ + 1))


\* Write(Buffer&, const std::vector<T>&) and Read(const Buffer&,
\* std::vector<T>&) call the Write / Read overload of the element type; el
\* names it: a primitive, a string, or a message of type el.T.
RECURSIVE WriteROS(_, _, _)
RECURSIVE ParseROS(_, _, _)
RECURSIVE ParseProto(_, _, _)
RECURSIVE WriteProto(_, _)
RECURSIVE SerializedProtoSize(_, _)
RECURSIVE SerializedROSSize(_, _)

\* MessageField<T>: the slot of an embedded message of type T; every
\* operation is the operation of the message it owns.
MessageFieldWriteROS(T, m, b) == WriteROS(T, m, b)

MessageFieldParseROS(T, m, b) == 
  LET Got(r) == [st |-> r.st, v |-> r.msg, b |-> r.b] IN Got(ParseROS(T, m, b))

WriteElement(el, b, v) ==
  CASE el.kind = "Primitive" -> Write(b, v)
    [] el.kind = "String" -> WriteString(b, v)
    [] OTHER -> MessageFieldWriteROS(el.T, v, b)

ReadElement(el, b, old) ==
  CASE el.kind = "Primitive" -> Read(b, old)
    [] el.kind = "String" -> ReadString(b, old)
    [] OTHER -> MessageFieldParseROS(el.T, old, b)

RECURSIVE WriteElements(_, _, _, _)
WriteElements(el, b, vec, i) == 
  IF i > Len(vec) THEN [st |-> OK, b |-> b]
  ELSE LET Got(w) == IF w.st # OK THEN w ELSE WriteElements(el, w.b, vec, i + 1)
       IN  Got(WriteElement(el, b, vec[i]))

WriteVector(el, b, vec) == 
  LET Got(h) ==
        IF h.st # OK THEN h
        ELSE WriteElements(el, Store(h.b, LE32(Len(vec))), vec, 1)
  IN  Got(HasSpaceFor(b, 4))

\* std::vector<T>::resize
Resize(vec, n, d) == [i \in 1..n |-> IF i <= Len(vec) THEN vec[i] ELSE d]

RECURSIVE ReadElements(_, _, _, _)
ReadElements(el, b, vec, i) == 
  IF i > Len(vec) THEN [st |-> OK, v |-> vec, b |-> b]
  ELSE LET Got(r) ==
             IF r.st # OK
             THEN [st |-> r.st, v |-> [vec EXCEPT ![i] = r.v], b |-> r.b]
             ELSE ReadElements(el, r.b, [vec EXCEPT ![i] = r.v], i + 1)
       IN  Got(ReadElement(el, b, vec[i]))

\* A count of 2^31 or more elements cannot be allocated: resize throws.
ReadVector(el, b, old, d) == 
  IF ~Check(b, 4) THEN [st |-> "Internal", v |-> old, b |-> b]
  ELSE LET Got(size, b1) ==
             IF size < 0 THEN [st |-> "crash", v |-> old, b |-> b1]
             ELSE ReadElements(el, b1, Resize(old, size, d), 1)
       IN  Got(FromLE32(b.mem, b.addr_ + 1), [b EXCEPT !.addr_ = @ + 4])

RECURSIVE Sum(_)
Sum(s) == IF s = << >> THEN 0 ELSE Head(s) + Sum(Tail(s))

RECURSIVE Concat(_)
Concat(ss) == IF ss = << >> THEN << >> ELSE Head(ss) \o Concat(Tail(ss))

\* ======================================================== field library ====
\* A field descriptor fd carries the constructor argument and the template
\* arguments of the field class: number, kind, FixedSize, Signed, Packed, T.

\* Field::IsPresent
IsPresent(f) == f.present_

\* ---- DEFINE_PRIMITIVE_FIELD: Int32Field<FixedSize, Signed>, Uint32Field, ...
PrimitiveSerializedProtoSize(fd, f) ==
  IF fd.FixedSize THEN TagSize(fd.number, kFixed32) + SizeofT
  ELSE TagSize(fd.number, kVarint) + VarintSize(f.value_, fd.Signed)

PrimitiveWriteProto(fd, f) ==
  IF fd.FixedSize THEN SerializeFixed(fd.number, f.value_)
  ELSE SerializeVarint(fd.number, f.value_, fd.Signed)

\* A faulty WriteROS: a field that is not present is left out.
PrimitiveWriteROSIfPresent(f, b) ==
  IF IsPresent(f) THEN Write(b, f.value_) ELSE [st |-> OK, b |-> b]

PrimitiveWriteROS(f, b) == Write(b, f.value_)

PrimitiveParseProto(fd, f, b) == 
  LET Got(v) ==
        IF v.st # OK THEN [st |-> v.st, f |-> f, b |-> v.b]
        ELSE [st |-> OK, f |-> [f EXCEPT !.value_ = v.v, !.present_ = TRUE],
              b |-> v.b]
  IN  IF fd.FixedSize THEN Got(DeserializeFixed(b))
      ELSE Got(DeserializeVarint(b, fd.Signed))

\* A faulty ParseROS: the cursor advances but the value read is dropped.
PrimitiveParseROSDropped(f, b) ==
  LET Got(r) == [st |-> r.st, f |-> f, b |-> r.b]
  IN  Got(Read(b, f.value_))

\* Reads the value; the presence bit is not touched.
PrimitiveParseROS(f, b) == 
  LET Got(r) == [st |-> r.st, f |-> [f EXCEPT !.value_ = r.v], b |-> r.b]
  IN  Got(Read(b, f.value_))

PrimitiveSerializedROSSize == SizeofT

\* ---- StringField: a byte sequence, present iff non-empty after a parse
StringSerializedProtoSize(fd, f) == LengthDelimitedSize(fd.number, Len(f.value_))

StringWriteProto(fd, f) == SerializeLengthDelimited(fd.number, f.value_)

StringWriteROS(f, b) == WriteString(b, f.value_)

StringParseProto(f, b) == 
  LET Got(v) ==
        IF v.st # OK THEN [st |-> v.st, f |-> f, b |-> v.b]
        ELSE [st |-> OK,
              f |-> [f EXCEPT !.value_ = v.v, !.present_ = (v.v # << >>)],
              b |-> v.b]
  IN  Got(DeserializeString(b))

StringParseROS(f, b) == 
  LET Got(r) ==
        IF r.st # OK THEN [st |-> r.st, f |-> f, b |-> r.b]
        ELSE [st |-> OK,
              f |-> [f EXCEPT !.value_ = r.v, !.present_ = (r.v # << >>)],
              b |-> r.b]
  IN  Got(ReadString(b, f.value_))

StringSerializedROSSize(f) == 4 + Len(f.value_)

\* ---- PrimitiveVectorField<T, FixedSize, Signed, Packed>
VarintSizes(fd, values) ==
  [i \in 1..Len(values) |-> VarintSize(values[i], fd.Signed)]

\* The unpacked branch sums tag + value over the elements and then wraps the
\* sum in a length-delimited header, as the packed branches do.
PrimitiveVectorSerializedProtoSize(fd, f) ==
  LET sz == Len(f.values_)
  IN  IF sz = 0 THEN 0
      ELSE IF fd.Packed
      THEN IF fd.FixedSize THEN LengthDelimitedSize(fd.number, sz * SizeofT)
           ELSE LengthDelimitedSize(fd.number, Sum(VarintSizes(fd, f.values_)))
      ELSE IF fd.FixedSize
           THEN LengthDelimitedSize(fd.number,
                    sz * (TagSize(fd.number, kFixed32) + SizeofT))
           ELSE LengthDelimitedSize(fd.number,
                    Sum([i \in 1..sz |-> TagSize(fd.number, kVarint)
                           + VarintSize(f.values_[i], fd.Signed)]))

PrimitiveVectorSerializedROSSize(f) == 4 + Len(f.values_) * SizeofT

PrimitiveVectorWriteProto(fd, f) ==
  LET sz == Len(f.values_)
  IN  IF sz = 0 THEN << >>
      ELSE IF fd.Packed
      THEN IF fd.FixedSize
           THEN SerializeLengthDelimited(fd.number,
                    Concat([i \in 1..sz |-> LE32(f.values_[i])]))
           ELSE SerializeLengthDelimitedHeader(fd.number,
                    Sum(VarintSizes(fd, f.values_)))
                \o Concat([i \in 1..sz |->
                             SerializeRawVarint(f.values_[i], fd.Signed)])
      ELSE IF fd.FixedSize
           THEN Concat([i \in 1..sz |-> SerializeFixed(fd.number, f.values_[i])])
           ELSE Concat([i \in 1..sz |->
                          SerializeVarint(fd.number, f.values_[i], fd.Signed)])

PrimitiveVectorWriteROS(f, b) == WriteVector([kind |-> "Primitive"], b, f.values_)

RECURSIVE PackedVarints(_, _, _)
\* The loop over the sub-buffer of a packed run; the elements decoded before
\* a failure stay in the vector.
PackedVarints(fd, values, sub) == 
  IF Eof(sub) THEN [st |-> OK, v |-> values]
  ELSE LET Got(v) ==
             IF v.st # OK THEN [st |-> v.st, v |-> values]
             ELSE PackedVarints(fd, Append(values, v.v), v.b)
       IN  Got(DeserializeVarint(sub, fd.Signed))

\* The encoding read is the one the field was declared with, whatever the
\* wire type of the tag.  A packed fixed run replaces the vector; copying a
\* run whose length is not a multiple of sizeof(T) writes past the vector.
PrimitiveVectorParseProto(fd, f, b) == 
  LET Copied(data, vs) ==
        IF Len(data.v) % SizeofT # 0 /\ b.ub = "crash"
        THEN [st |-> "crash", f |-> [f EXCEPT !.values_ = vs], b |-> data.b]
        ELSE [st |-> OK, f |-> [f EXCEPT !.values_ = vs], b |-> data.b]
      Pushed(data, r) ==
        [st |-> r.st, f |-> [f EXCEPT !.values_ = r.v], b |-> data.b]
      Run(data) ==
        IF data.st # OK THEN [st |-> data.st, f |-> f, b |-> data.b]
        ELSE IF fd.FixedSize
        THEN Copied(data, [i \in 1..(Len(data.v) \div SizeofT) |->
                             FromLE32(data.v, (i - 1) * SizeofT + 1)])
        ELSE Pushed(data, PackedVarints(fd, f.values_, ProtoBuffer(data.v, b.ub)))
      One(v) ==
        IF v.st # OK THEN [st |-> v.st, f |-> f, b |-> v.b]
        ELSE [st |-> OK, f |-> [f EXCEPT !.values_ = Append(@, v.v)], b |-> v.b]
  IN  IF fd.Packed THEN Run(DeserializeLengthDelimited(b))
      ELSE IF fd.FixedSize THEN One(DeserializeFixed(b))
      ELSE One(DeserializeVarint(b, fd.Signed))

PrimitiveVectorParseROS(f, b) == 
  LET Got(r) == [st |-> r.st, f |-> [f EXCEPT !.values_ = r.v], b |-> r.b]
  IN  Got(ReadVector([kind |-> "Primitive"], b, f.values_, 0))

\* ================================================================ schema ====
\* The C++ field types the compiler picks for the fields of a message.
PrimitiveInfo(number, FixedSize, Signed) ==
  [number |-> number, kind |-> "Primitive", FixedSize |-> FixedSize,
   Signed |-> Signed, Packed |-> FALSE, T |-> ""]

StringInfo(number) ==
  [number |-> number, kind |-> "String", FixedSize |-> FALSE,
   Signed |-> FALSE, Packed |-> FALSE, T |-> ""]

PrimitiveVectorInfo(number, FixedSize, Signed, Packed) ==
  [number |-> number, kind |-> "PrimitiveVector", FixedSize |-> FixedSize,
   Signed |-> Signed, Packed |-> Packed, T |-> ""]

StringVectorInfo(number) ==
  [number |-> number, kind |-> "StringVector", FixedSize |-> FALSE,
   Signed |-> FALSE, Packed |-> FALSE, T |-> ""]

MessageVectorInfo(number, T) ==
  [number |-> number, kind |-> "MessageVector", FixedSize |-> FALSE,
   Signed |-> FALSE, Packed |-> FALSE, T |-> T]

\* A oneof: the numbers and the member types of its arms.
UnionInfo(field_numbers, members) ==
  [number |-> 0, kind |-> "Union", field_numbers_ |-> field_numbers,
   members |-> members]

\* sizeof of the generated class Inner, as a build lays it out.
SizeofInner == 56

\* message Inner { string str = 1; int32 f = 2; }
InnerSchema ==
  [fields_ |-> << StringInfo(1), PrimitiveInfo(2, FALSE, FALSE) >>,
   unions_ |-> << >>,
   sizeof |-> SizeofInner]

\* message TestMessage {
\*   int32 x = 1;  sfixed32 fx = 2;  string s = 3;
\*   repeated int32 vi32 = 4 [packed = true];  repeated string vstr = 5;
\*   repeated Inner vm = 7;  Enum e = 8;
\*   repeated int32 vuv = 9 [packed = false];
\*   repeated sfixed32 vfp = 10 [packed = true];
\*   repeated sfixed32 vfu = 11 [packed = false];
\*   sint32 sz = 12;
\*   oneof u { int32 u1a = 13; string u1b = 14; }
\* }
TestMessageSchema ==
  [fields_ |-> << PrimitiveInfo(1, FALSE, FALSE),
                  PrimitiveInfo(2, TRUE, FALSE),
                  StringInfo(3),
                  PrimitiveVectorInfo(4, FALSE, FALSE, TRUE),
                  StringVectorInfo(5),
                  MessageVectorInfo(7, "Inner"),
                  PrimitiveInfo(8, FALSE, FALSE),
                  PrimitiveVectorInfo(9, FALSE, FALSE, FALSE),
                  PrimitiveVectorInfo(10, TRUE, FALSE, TRUE),
                  PrimitiveVectorInfo(11, TRUE, FALSE, FALSE),
                  PrimitiveInfo(12, FALSE, TRUE) >>,
   unions_ |-> << UnionInfo(<< 13, 14 >>,
                            << PrimitiveInfo(13, FALSE, FALSE), StringInfo(14) >>) >>,
   sizeof |-> 0]

Schema(T) == IF T = "Inner" THEN InnerSchema ELSE TestMessageSchema

\* The generated member functions visit the regular fields, then the oneofs.
Slots(T) == 
  LET Joined(schema) == schema.fields_ \o schema.unions_ IN Joined(Schema(T))

\* A default-constructed slot.
NewField(fd) ==
  CASE fd.kind = "Primitive" -> [present_ |-> FALSE, value_ |-> 0]
    [] fd.kind = "String" -> [present_ |-> FALSE, value_ |-> << >>]
    [] fd.kind = "PrimitiveVector" -> [present_ |-> FALSE, values_ |-> << >>]
    [] fd.kind = "StringVector" -> [present_ |-> FALSE, strings_ |-> << >>]
    [] fd.kind = "MessageVector" -> [present_ |-> FALSE, msgs_ |-> << >>]
    [] OTHER ->
         [present_ |-> FALSE, discriminator |-> 0,
          value_ |-> [i \in 1..Len(fd.members) |->
                        IF fd.members[i].kind = "String" THEN << >> ELSE 0]]

\* A default-constructed message: bool populated_ = false.
NewMessage(T) == 
  LET Fresh(S) == [slots |-> [i \in 1..Len(S) |-> NewField(S[i])],
                   populated_ |-> FALSE]
  IN  Fresh(Slots(T))

\* Message::IsPopulated
IsPopulated(msg) == msg.populated_

\* ---- StringVectorField
StringVectorSerializedProtoSize(fd, f) ==
  Sum([i \in 1..Len(f.strings_) |->
         LengthDelimitedSize(fd.number, Len(f.strings_[i]))])

StringVectorSerializedROSSize(f) ==
  4 + Sum([i \in 1..Len(f.strings_) |-> 4 + Len(f.strings_[i])])

StringVectorWriteProto(fd, f) ==
  Concat([i \in 1..Len(f.strings_) |->
            SerializeLengthDelimited(fd.number, f.strings_[i])])

StringVectorWriteROS(f, b) == WriteVector([kind |-> "String"], b, f.strings_)

StringVectorParseProto(f, b) == 
  LET Got(v) ==
        IF v.st # OK THEN [st |-> v.st, f |-> f, b |-> v.b]
        ELSE [st |-> OK, f |-> [f EXCEPT !.strings_ = Append(@, v.v)], b |-> v.b]
  IN  Got(DeserializeString(b))

StringVectorParseROS(f, b) == 
  LET Got(r) == [st |-> r.st, f |-> [f EXCEPT !.strings_ = r.v], b |-> r.b]
  IN  Got(ReadVector([kind |-> "String"], b, f.strings_, << >>))

\* ---- MessageVectorField<T>
MessageVectorSerializedProtoSize(fd, f) ==
  Sum([i \in 1..Len(f.msgs_) |->
         LengthDelimitedSize(fd.number, SerializedProtoSize(fd.T, f.msgs_[i]))])

\* 4 + msgs_.size() * sizeof(T)
MessageVectorSerializedROSSize(fd, f) == 4 + Len(f.msgs_) * Schema(fd.T).sizeof

MessageVectorWriteProto(fd, f) ==
  Concat([i \in 1..Len(f.msgs_) |->
            SerializeLengthDelimitedHeader(fd.number,
                SerializedProtoSize(fd.T, f.msgs_[i]))
            \o WriteProto(fd.T, f.msgs_[i])])

MessageVectorWriteROS(fd, f, b) ==
  WriteVector([kind |-> "Message", T |-> fd.T], b, f.msgs_)

\* The new element is appended before it is parsed.
MessageVectorParseProto(fd, f, b) == 
  LET Pushed(v, r) ==
        [st |-> r.st, f |-> [f EXCEPT !.msgs_ = Append(@, r.msg)], b |-> v.b]
      Got(v) ==
        IF v.st # OK THEN [st |-> v.st, f |-> f, b |-> v.b]
        ELSE Pushed(v, ParseProto(fd.T, NewMessage(fd.T), ProtoBuffer(v.v, b.ub)))
  IN  Got(DeserializeLengthDelimited(b))

MessageVectorParseROS(fd, f, b) == 
  LET Got(r) == [st |-> r.st, f |-> [f EXCEPT !.msgs_ = r.v], b |-> r.b]
  IN  Got(ReadVector([kind |-> "Message", T |-> fd.T], b, f.msgs_,
                     NewMessage(fd.T)))

\* ---- UnionField<T...>: the members of a oneof and its discriminator
\* int32_t Discriminator() const { return 0; }
Discriminator(u) == 0

\* A faulty Is: the comparison is inverted.
IsNot(u, number) == Discriminator(u) # number

Is(u, number) == Discriminator(u) = number

\* Union<Type>Field / UnionStringField
UnionMemberSerializedSize(md, v) ==
  IF md.kind = "String"
  THEN TagSize(md.number, kLengthDelimited) + VarintSize(Len(v), FALSE) + Len(v)
  ELSE PrimitiveSerializedProtoSize(md, [value_ |-> v])

UnionMemberSerialize(md, v) ==
  IF md.kind = "String" THEN SerializeLengthDelimited(md.number, v)
  ELSE PrimitiveWriteProto(md, [value_ |-> v])

UnionMemberDeserialize(md, b) ==
  IF md.kind = "String" THEN DeserializeString(b)
  ELSE IF md.FixedSize THEN DeserializeFixed(b)
  ELSE DeserializeVarint(b, md.Signed)

\* Deserialize<Id>: the member is decoded, then the number of the arm is
\* stored as the discriminator.
UnionParseProto(ud, u, Id, b) == 
  LET Got(r) ==
        IF r.st # OK THEN [st |-> r.st, f |-> u, b |-> r.b]
        ELSE [st |-> OK,
              f |-> [u EXCEPT !.value_[Id] = r.v,
                              !.discriminator = ud.field_numbers_[Id]],
              b |-> r.b]
  IN  Got(UnionMemberDeserialize(ud.members[Id], b))

UnionWriteProto(ud, u, Id) == UnionMemberSerialize(ud.members[Id], u.value_[Id])

UnionSerializedProtoSize(ud, u, Id) ==
  UnionMemberSerializedSize(ud.members[Id], u.value_[Id])

\* ROS form of a oneof: the 4-byte discriminator, then every member.
RECURSIVE UnionWriteMembers(_, _, _, _)
UnionWriteMembers(ud, u, b, i) == 
  IF i > Len(ud.members) THEN [st |-> OK, b |-> b]
  ELSE LET Got(w) == IF w.st # OK THEN w ELSE UnionWriteMembers(ud, u, w.b, i + 1)
       IN  Got(WriteElement(ud.members[i], b, u.value_[i]))

UnionWriteROS(ud, u, b) == 
  LET Got(w) == IF w.st # OK THEN w ELSE UnionWriteMembers(ud, u, w.b, 1)
  IN  Got(Write(b, u.discriminator))

RECURSIVE UnionReadMembers(_, _, _, _)
UnionReadMembers(ud, u, b, i) == 
  IF i > Len(ud.members) THEN [st |-> OK, f |-> u, b |-> b]
  ELSE LET Got(r) ==
             IF r.st # OK
             THEN [st |-> r.st, f |-> [u EXCEPT !.value_[i] = r.v], b |-> r.b]
             ELSE UnionReadMembers(ud, [u EXCEPT !.value_[i] = r.v], r.b, i + 1)
       IN  Got(ReadElement(ud.members[i], b, u.value_[i]))

UnionParseROS(ud, u, b) == 
  LET Got(d) ==
        IF d.st # OK THEN [st |-> d.st, f |-> u, b |-> d.b]
        ELSE UnionReadMembers(ud, [u EXCEPT !.discriminator = d.v], d.b, 1)
  IN  Got(Read(b, u.discriminator))

UnionSerializedROSSize(ud, u) ==
  4 + Sum([i \in 1..Len(ud.members) |->
             IF ud.members[i].kind = "String" THEN 4 + Len(u.value_[i])
             ELSE SizeofT])

\* ==================================================== generated message ====
\* The call  member.Op(buffer)  resolved by the C++ type of the member.
FieldParseProto(fd, f, b) ==
  CASE fd.kind = "Primitive" -> PrimitiveParseProto(fd, f, b)
    [] fd.kind = "String" -> StringParseProto(f, b)
    [] fd.kind = "PrimitiveVector" -> PrimitiveVectorParseProto(fd, f, b)
    [] fd.kind = "StringVector" -> StringVectorParseProto(f, b)
    [] OTHER -> MessageVectorParseProto(fd, f, b)

FieldWriteProto(fd, f) ==
  CASE fd.kind = "Primitive" -> PrimitiveWriteProto(fd, f)
    [] fd.kind = "String" -> StringWriteProto(fd, f)
    [] fd.kind = "PrimitiveVector" -> PrimitiveVectorWriteProto(fd, f)
    [] fd.kind = "StringVector" -> StringVectorWriteProto(fd, f)
    [] OTHER -> MessageVectorWriteProto(fd, f)

FieldSerializedProtoSize(fd, f) ==
  CASE fd.kind = "Primitive" -> PrimitiveSerializedProtoSize(fd, f)
    [] fd.kind = "String" -> StringSerializedProtoSize(fd, f)
    [] fd.kind = "PrimitiveVector" -> PrimitiveVectorSerializedProtoSize(fd, f)
    [] fd.kind = "StringVector" -> StringVectorSerializedProtoSize(fd, f)
    [] OTHER -> MessageVectorSerializedProtoSize(fd, f)

FieldWriteROS(fd, f, b) ==
  CASE fd.kind = "Primitive" -> PrimitiveWriteROS(f, b)
    [] fd.kind = "String" -> StringWriteROS(f, b)
    [] fd.kind = "PrimitiveVector" -> PrimitiveVectorWriteROS(f, b)
    [] fd.kind = "StringVector" -> StringVectorWriteROS(f, b)
    [] fd.kind = "MessageVector" -> MessageVectorWriteROS(fd, f, b)
    [] OTHER -> UnionWriteROS(fd, f, b)

FieldParseROS(fd, f, b) ==
  CASE fd.kind = "Primitive" -> PrimitiveParseROS(f, b)
    [] fd.kind = "String" -> StringParseROS(f, b)
    [] fd.kind = "PrimitiveVector" -> PrimitiveVectorParseROS(f, b)
    [] fd.kind = "StringVector" -> StringVectorParseROS(f, b)
    [] fd.kind = "MessageVector" -> MessageVectorParseROS(fd, f, b)
    [] OTHER -> UnionParseROS(fd, f, b)

FieldSerializedROSSize(fd, f) ==
  CASE fd.kind = "Primitive" -> PrimitiveSerializedROSSize
    [] fd.kind = "String" -> StringSerializedROSSize(f)
    [] fd.kind = "PrimitiveVector" -> PrimitiveVectorSerializedROSSize(f)
    [] fd.kind = "StringVector" -> StringVectorSerializedROSSize(f)
    [] fd.kind = "MessageVector" -> MessageVectorSerializedROSSize(fd, f)
    [] OTHER -> UnionSerializedROSSize(fd, f)

is_repeated(fd) == fd.kind \in {"PrimitiveVector", "StringVector", "MessageVector"}

\* The arm of union ud whose case label is n, or 0 when the switch has none.
CaseOf(ud, n) == 
  LET Arms == {i \in 1..Len(ud.members) : ud.field_numbers_[i] = n}
  IN  IF Arms = {} THEN 0 ELSE CHOOSE i \in Arms : TRUE

\* The slot that the case label field_number of ParseProto leads to, or 0 for
\* the default label.
SlotOf(T, field_number) == 
  LET Hit(fd) == IF fd.kind = "Union" THEN CaseOf(fd, field_number) # 0
                 ELSE fd.number = field_number
      Find(S) == IF \E i \in 1..Len(S) : Hit(S[i])
                 THEN CHOOSE i \in 1..Len(S) : Hit(S[i])
                 ELSE 0
  IN  Find(Slots(T))

\* The parse loop with a default label that drops the status of SkipTag.
ParseProtoSkipUnchecked(T, msg, b) == 
  IF Eof(b) THEN [st |-> OK, msg |-> msg, b |-> b]
  ELSE LET Skipped(k) == [st |-> OK, msg |-> msg, b |-> k.b]
           Stored(i, p) ==
             [st |-> p.st, msg |-> [msg EXCEPT !.slots[i] = p.f], b |-> p.b]
           Case(tag, field_number, i, fd) ==
             IF fd.kind = "Union"
             THEN Stored(i, UnionParseProto(fd, msg.slots[i],
                                CaseOf(fd, field_number), tag.b))
             ELSE Stored(i, FieldParseProto(fd, msg.slots[i], tag.b))
           Switch(tag, field_number, i) ==
             IF i = 0 THEN Skipped(SkipTag(tag.b, tag.v))
             ELSE Case(tag, field_number, i, Slots(T)[i])
           Loop(r) == IF r.st # OK THEN r ELSE ParseProto(T, r.msg, r.b)
           Tagged(tag, field_number) ==
             Loop(Switch(tag, field_number, SlotOf(T, field_number)))
           Got(tag) ==
             IF tag.st # OK THEN [st |-> tag.st, msg |-> msg, b |-> tag.b]
             ELSE Tagged(tag, tag.v \div (2 ^ kFieldIdShift))
       IN  Got(DeserializeVarint(b, FALSE))

\* while (!buffer.Eof()) { tag; switch (tag >> kFieldIdShift) ... }
ParseProto(T, msg, b) == 
  IF Eof(b) THEN [st |-> OK, msg |-> msg, b |-> b]
  ELSE LET Skipped(k) == [st |-> k.st, msg |-> msg, b |-> k.b]
           Stored(i, p) ==
             [st |-> p.st, msg |-> [msg EXCEPT !.slots[i] = p.f], b |-> p.b]
           Case(tag, field_number, i, fd) ==
             IF fd.kind = "Union"
             THEN Stored(i, UnionParseProto(fd, msg.slots[i],
                                CaseOf(fd, field_number), tag.b))
             ELSE Stored(i, FieldParseProto(fd, msg.slots[i], tag.b))
           Switch(tag, field_number, i) ==
             IF i = 0 THEN Skipped(SkipTag(tag.b, tag.v))
             ELSE Case(tag, field_number, i, Slots(T)[i])
           Loop(r) == IF r.st # OK THEN r ELSE ParseProto(T, r.msg, r.b)
           Tagged(tag, field_number) ==
             Loop(Switch(tag, field_number, SlotOf(T, field_number)))
           Got(tag) ==
             IF tag.st # OK THEN [st |-> tag.st, msg |-> msg, b |-> tag.b]
             ELSE Tagged(tag, tag.v \div (2 ^ kFieldIdShift))
       IN  Got(DeserializeVarint(b, FALSE))

RECURSIVE ParseROSFrom(_, _, _, _)
ParseROSFrom(T, msg, b, i) == 
  LET Got(p) ==
        IF p.st # OK
        THEN [st |-> p.st, msg |-> [msg EXCEPT !.slots[i] = p.f], b |-> p.b]
        ELSE ParseROSFrom(T, [msg EXCEPT !.slots[i] = p.f], p.b, i + 1)
      Member(S) ==
        IF i > Len(S) THEN [st |-> OK, msg |-> msg, b |-> b]
        ELSE Got(FieldParseROS(S[i], msg.slots[i], b))
  IN  Member(Slots(T))

ParseROS(T, msg, b) == ParseROSFrom(T, msg, b, 1)

RECURSIVE WriteROSFrom(_, _, _, _)
WriteROSFrom(T, msg, b, i) == 
  LET Got(w) == IF w.st # OK THEN w ELSE WriteROSFrom(T, msg, w.b, i + 1)
      Member(S) ==
        IF i > Len(S) THEN [st |-> OK, b |-> b]
        ELSE Got(FieldWriteROS(S[i], msg.slots[i], b))
  IN  Member(Slots(T))

WriteROS(T, msg, b) == WriteROSFrom(T, msg, b, 1)

\* Regular fields are written when IsPresent(); a oneof through the switch
\* on Discriminator().
WriteProto(T, msg) == 
  LET Arm(fd, f, Id) == IF Id # 0 THEN UnionWriteProto(fd, f, Id) ELSE << >>
      Member(fd, f) ==
        IF fd.kind = "Union" THEN Arm(fd, f, CaseOf(fd, Discriminator(f)))
        ELSE IF IsPresent(f) THEN FieldWriteProto(fd, f) ELSE << >>
      All(S) == Concat([i \in 1..Len(S) |-> Member(S[i], msg.slots[i])])
  IN  All(Slots(T))

\* Repeated fields are counted always, singular ones when IsPresent().
SerializedProtoSize(T, msg) == 
  LET Arm(fd, f, Id) == IF Id # 0 THEN UnionSerializedProtoSize(fd, f, Id) ELSE 0
      Member(fd, f) ==
        IF fd.kind = "Union" THEN Arm(fd, f, CaseOf(fd, Discriminator(f)))
        ELSE IF is_repeated(fd) \/ IsPresent(f)
        THEN FieldSerializedProtoSize(fd, f)
        ELSE 0
      All(S) == Sum([i \in 1..Len(S) |-> Member(S[i], msg.slots[i])])
  IN  All(Slots(T))

SerializedROSSize(T, msg) == 
  LET All(S) == Sum([i \in 1..Len(S) |-> FieldSerializedROSSize(S[i], msg.slots[i])])
  IN  All(Slots(T))

\* ================================================================ inputs ====
\* One wire record of a Protobuf input: the field number n, the bytes, and
\* whether a reference serializer emits this form for the schema (ref), may
\* emit it several times in a row (rep), and whether n is a declared field.
Item(n, wire, ref, rep) == [n |-> n, wire |-> wire, ref |-> ref, rep |-> rep]

Str(k) == [i \in 1..k |-> 104]

PackedVarintRun(n, k) ==
  SerializeLengthDelimited(n, Concat([i \in 1..k |-> RawVarint(i)]))

PackedFixedRun(n, k) ==
  SerializeLengthDelimited(n, Concat([i \in 1..k |-> LE32(i)]))

InnerWire == SerializeLengthDelimited(1, Str(1)) \o SerializeVarint(2, 5, FALSE)

KnownItems ==
  { Item(1, SerializeVarint(1, v, FALSE), v # 0, FALSE) : v \in {0, 300} }
  \cup { Item(2, SerializeFixed(2, 7), TRUE, FALSE) }
  \cup { Item(3, SerializeLengthDelimited(3, Str(k)), TRUE, FALSE) : k \in 1..MaxStrLen }
  \cup { Item(4, PackedVarintRun(4, k), TRUE, FALSE) : k \in 1..MaxVecLen }
  \cup { Item(4, SerializeVarint(4, 1, FALSE), FALSE, FALSE) }
  \cup { Item(5, SerializeLengthDelimited(5, Str(1)), TRUE, TRUE) }
  \cup { Item(7, SerializeLengthDelimited(7, w), TRUE, TRUE) : w \in {<< >>, InnerWire} }
  \cup { Item(8, SerializeVarint(8, 1, FALSE), TRUE, FALSE) }
  \cup { Item(9, SerializeVarint(9, 1, FALSE), TRUE, TRUE) }
  \cup { Item(9, PackedVarintRun(9, MaxVecLen), FALSE, FALSE) }
  \cup { Item(10, PackedFixedRun(10, k), TRUE, FALSE) : k \in 1..MaxVecLen }
  \cup { Item(10, SerializeFixed(10, 1), FALSE, FALSE) }
  \cup { Item(11, SerializeFixed(11, 1), TRUE, TRUE) }
  \cup { Item(11, PackedFixedRun(11, MaxVecLen), FALSE, FALSE) }
  \cup { Item(12, SerializeVarint(12, -1, TRUE), TRUE, FALSE) }
  \cup { Item(13, SerializeVarint(13, 300, FALSE), TRUE, FALSE) }
  \cup { Item(14, SerializeLengthDelimited(14, Str(1)), TRUE, FALSE) }

\* Well-formed encodings of field 15, which the schema does not declare, one
\* per supported wire type.
UnknownItems ==
  { Item(15, RawVarint(MakeTag(15, kVarint)) \o << 1 >>, FALSE, FALSE),
    Item(15, RawVarint(MakeTag(15, kFixed64)) \o LE32(1) \o LE32(0), FALSE, FALSE),
    Item(15, SerializeLengthDelimited(15, << 0 >>), FALSE, FALSE),
    Item(15, SerializeFixed(15, 1), FALSE, FALSE) }

Items == KnownItems \cup UnknownItems

ItemSeqs == UNION { [1..k -> Items] : k \in 0..MaxItems }

\* Records of the undeclared field 15 with a wire type that is none of
\* 0, 1, 2, 5: start group, end group and the two unassigned ones, each
\* followed by one byte, and a start-group tag that ends the input.
GroupItems ==
  { Item(15, RawVarint(MakeTag(15, wt)) \o << 1 >>, FALSE, FALSE) : wt \in {3, 4, 6, 7} }
  \cup { Item(15, RawVarint(MakeTag(15, 3)), FALSE, FALSE) }

\* Inputs that end in such a record.
GroupSeqs ==
  { Append(its, g) : its \in {s \in ItemSeqs : Len(s) < MaxItems}, g \in GroupItems }

Inputs == ItemSeqs \cup GroupSeqs

Wire(its) == Concat([i \in 1..Len(its) |-> its[i].wire])

OneofNumbers == {13, 14}

\* What a reference serializer produces for some message of the schema:
\* fields in number order, each in its declared form, one arm per oneof.
IsReference(its) ==
  /\ \A i \in 1..Len(its) : its[i].ref
  /\ \A i \in 1..Len(its) : \A j \in (i + 1)..Len(its) :
        \/ its[i].n < its[j].n
        \/ its[i].n = its[j].n /\ its[i].rep
  /\ Cardinality({i \in 1..Len(its) : its[i].n \in OneofNumbers}) <= 1

\* ========================================================= state machine ====
VARIABLES
  items,        \* the wire records of the Protobuf input
  buffer,       \* the Protobuf input bytes
  t,            \* the message instance that parses the Protobuf input
  ros_buffer,   \* the ROS buffer t writes
  t2,           \* the message instance that parses the ROS bytes
  buffer2,      \* the Protobuf bytes last written by WriteProto
  ros_buffer2,  \* the ROS buffer t2 writes
  status,       \* the status the last call returned
  pc,           \* the last call made
  sato_multiplexers,  \* the registry: NULL, or a map from names to vtables
  startup,      \* static initialization is still running
  lookup,       \* per thread, the GetMultiplexerInfo call it is in
  message_type, \* the name given to the last Multiplexer call
  result,       \* what the last Multiplexer call returned beside a status
  message_,     \* the descriptor the message generator compiles
  fields_,      \* MessageGenerator::fields_
  unions_,      \* MessageGenerator::unions_, in iteration order
  fields_in_order_,  \* MessageGenerator::fields_in_order_
  gen_pc,       \* the last MessageGenerator call made
  type_url_,    \* AnyMessage::type_url_
  type,         \* the registry key computed from type_url_
  value_,       \* AnyMessage::value_: NULL, or the message instance built in it
  phaser_bank,  \* the names the message types registered, each with its type
  written,      \* the values given to Write on ros_buffer so far
  v,            \* the value whose encoding a buffer being read holds
  out,          \* what the reads made so far returned
  proto_buffer  \* the ProtoBuffer of a parse in progress: bytes and cursor

msg_vars == << items, buffer, t, ros_buffer, t2, buffer2, ros_buffer2, status, pc >>

mux_vars == << sato_multiplexers, startup, lookup, message_type, result >>

gen_vars == << message_, fields_, unions_, fields_in_order_, gen_pc >>

any_vars == << type_url_, type, value_, phaser_bank >>

buf_vars == << written, v, out, proto_buffer >>

vars == << msg_vars, mux_vars, gen_vars, any_vars, buf_vars >>

\* A pointer is the sequence of the objects it points to: none when it is
\* null, one otherwise.
NULL == << >>

\* The threads that look names up in the registry.
NumThreads == 2

Threads == 1..NumThreads

\* The parts of the state a specification leaves alone.
MuxIdle ==
  /\ sato_multiplexers = NULL
  /\ startup = TRUE
  /\ lookup = [th \in Threads |-> [at |-> "idle"]]
  /\ message_type = ""
  /\ result = NULL

GenIdle ==
  /\ message_ = << >>
  /\ fields_ = << >>
  /\ unions_ = << >>
  /\ fields_in_order_ = << >>
  /\ gen_pc = "idle"

\* The test's instances and buffers, untouched.
MsgIdle ==
  /\ items = << >>
  /\ buffer = << >>
  /\ t = NewMessage("TestMessage")
  /\ t2 = NewMessage("TestMessage")
  /\ ros_buffer = OwnedBuffer
  /\ ros_buffer2 = OwnedBuffer
  /\ buffer2 = << >>
  /\ status = OK
  /\ pc = "idle"

AnyIdle ==
  /\ type_url_ = << >>
  /\ type = << >>
  /\ value_ = NULL
  /\ phaser_bank = << >>

BufIdle ==
  /\ written = << >>
  /\ v = << >>
  /\ out = << >>
  /\ proto_buffer = ProtoBuffer(<< >>, "silent")

Init ==
  /\ items \in Inputs
  /\ buffer = Wire(items)
  /\ t = NewMessage("TestMessage")
  /\ t2 = NewMessage("TestMessage")
  /\ ros_buffer = OwnedBuffer
  /\ ros_buffer2 = OwnedBuffer
  /\ buffer2 = << >>
  /\ status = OK
  /\ pc = "start"
  /\ MuxIdle
  /\ GenIdle
  /\ AnyIdle
  /\ BufIdle

\* t.ParseProto(buffer) on the fresh instance
TParseProto ==
  /\ pc = "start"
  /\ \E ub \in UBOutcomes :
       LET r == ParseProto("TestMessage", t, ProtoBuffer(buffer, ub))
       IN  /\ t' = r.msg
           /\ status' = r.st
  /\ pc' = "t.ParseProto"
  /\ UNCHANGED << items, buffer, ros_buffer, t2, buffer2, ros_buffer2 >>
  /\ UNCHANGED << mux_vars, gen_vars, any_vars, buf_vars >>

\* a second t.ParseProto(buffer) on the same instance
TParseProtoAgain ==
  /\ pc = "t.ParseProto"
  /\ status = OK
  /\ \E ub \in UBOutcomes :
       LET r == ParseProto("TestMessage", t, ProtoBuffer(buffer, ub))
       IN  /\ t' = r.msg
           /\ status' = r.st
  /\ pc' = "t.ParseProto again"
  /\ UNCHANGED << items, buffer, ros_buffer, t2, buffer2, ros_buffer2 >>
  /\ UNCHANGED << mux_vars, gen_vars, any_vars, buf_vars >>

\* t.WriteProto(buffer2) after the parse
TWriteProto ==
  /\ pc = "t.ParseProto"
  /\ status = OK
  /\ buffer2' = WriteProto("TestMessage", t)
  /\ status' = OK
  /\ pc' = "t.WriteProto"
  /\ UNCHANGED << items, buffer, t, ros_buffer, t2, ros_buffer2 >>
  /\ UNCHANGED << mux_vars, gen_vars, any_vars, buf_vars >>

\* t.WriteROS(ros_buffer) after the parse
TWriteROS ==
  /\ pc = "t.ParseProto"
  /\ status = OK
  /\ LET w == WriteROS("TestMessage", t, ros_buffer)
     IN  /\ ros_buffer' = w.b
         /\ status' = w.st
  /\ pc' = "t.WriteROS"
  /\ UNCHANGED << items, buffer, t, t2, buffer2, ros_buffer2 >>
  /\ UNCHANGED << mux_vars, gen_vars, any_vars, buf_vars >>

\* A ProtoToROS that goes on to WriteROS after a failed parse.
ProtoToROSUnchecked ==
  /\ pc = "start"
  /\ \E ub \in UBOutcomes :
       LET Wrote(r, w) ==
             /\ t' = r.msg
             /\ ros_buffer' = w.b
             /\ status' = w.st
             /\ pc' = IF r.st # OK THEN "t.ParseProto" ELSE "t.WriteROS"
           Got(r) == Wrote(r, WriteROS("TestMessage", r.msg, ros_buffer))
       IN  Got(ParseProto("TestMessage", t, ProtoBuffer(buffer, ub)))
  /\ UNCHANGED << items, buffer, t2, buffer2, ros_buffer2 >>
  /\ UNCHANGED << mux_vars, gen_vars, any_vars, buf_vars >>

\* Message::ProtoToROS: ParseProto, then WriteROS unless the parse failed
ProtoToROS ==
  /\ pc = "start"
  /\ \E ub \in UBOutcomes :
       LET r == ParseProto("TestMessage", t, ProtoBuffer(buffer, ub))
           w == WriteROS("TestMessage", r.msg, ros_buffer)
       IN  /\ t' = r.msg
           /\ IF r.st # OK
              THEN status' = r.st /\ pc' = "t.ParseProto" /\ UNCHANGED ros_buffer
              ELSE status' = w.st /\ pc' = "t.WriteROS" /\ ros_buffer' = w.b
  /\ UNCHANGED << items, buffer, t2, buffer2, ros_buffer2 >>
  /\ UNCHANGED << mux_vars, gen_vars, any_vars, buf_vars >>

\* t2.ParseROS over the bytes t wrote:
\* ROSBuffer ros_buffer2(ros_buffer.data(), ros_buffer.size())
T2ParseROS ==
  /\ pc = "t.WriteROS"
  /\ status = OK
  /\ \E ub \in UBOutcomes :
       LET r == ParseROS("TestMessage", t2, FixedBuffer(ros_buffer.mem, ub))
       IN  /\ t2' = r.msg
           /\ status' = r.st
  /\ pc' = "t2.ParseROS"
  /\ UNCHANGED << items, buffer, t, ros_buffer, buffer2, ros_buffer2 >>
  /\ UNCHANGED << mux_vars, gen_vars, any_vars, buf_vars >>

\* a second t2.ParseROS over the same bytes
T2ParseROSAgain ==
  /\ pc = "t2.ParseROS"
  /\ status = OK
  /\ \E ub \in UBOutcomes :
       LET r == ParseROS("TestMessage", t2, FixedBuffer(ros_buffer.mem, ub))
       IN  /\ t2' = r.msg
           /\ status' = r.st
  /\ pc' = "t2.ParseROS again"
  /\ UNCHANGED << items, buffer, t, ros_buffer, buffer2, ros_buffer2 >>
  /\ UNCHANGED << mux_vars, gen_vars, any_vars, buf_vars >>

\* t2.WriteProto(buffer2) after the ROS parse
T2WriteProto ==
  /\ pc = "t2.ParseROS"
  /\ status = OK
  /\ buffer2' = WriteProto("TestMessage", t2)
  /\ status' = OK
  /\ pc' = "t2.WriteProto"
  /\ UNCHANGED << items, buffer, t, ros_buffer, t2, ros_buffer2 >>
  /\ UNCHANGED << mux_vars, gen_vars, any_vars, buf_vars >>

\* t2.WriteROS(ros_buffer2) after the ROS parse
T2WriteROS ==
  /\ pc = "t2.ParseROS"
  /\ status = OK
  /\ LET w == WriteROS("TestMessage", t2, ros_buffer2)
     IN  /\ ros_buffer2' = w.b
         /\ status' = w.st
  /\ pc' = "t2.WriteROS"
  /\ UNCHANGED << items, buffer, t, ros_buffer, t2, buffer2 >>
  /\ UNCHANGED << mux_vars, gen_vars, any_vars, buf_vars >>

\* Message::ROSToProto: ParseROS, then WriteProto unless the parse failed
ROSToProto ==
  /\ pc = "t.WriteROS"
  /\ status = OK
  /\ \E ub \in UBOutcomes :
       LET r == ParseROS("TestMessage", t2, FixedBuffer(ros_buffer.mem, ub))
       IN  /\ t2' = r.msg
           /\ IF r.st # OK
              THEN status' = r.st /\ pc' = "t2.ParseROS" /\ UNCHANGED buffer2
              ELSE /\ status' = OK
                   /\ pc' = "t2.WriteProto"
                   /\ buffer2' = WriteProto("TestMessage", r.msg)
  /\ UNCHANGED << items, buffer, t, ros_buffer, ros_buffer2 >>
  /\ UNCHANGED << mux_vars, gen_vars, any_vars, buf_vars >>

\* A second t.WriteProto that is given the buffer the first one filled.
TWriteProtoAppending ==
  /\ pc = "t.WriteProto"
  /\ buffer2' = buffer2 \o WriteProto("TestMessage", t)
  /\ status' = OK
  /\ pc' = "t.WriteProto again"
  /\ UNCHANGED << items, buffer, t, ros_buffer, t2, ros_buffer2 >>
  /\ UNCHANGED << mux_vars, gen_vars, any_vars, buf_vars >>

\* a second t.WriteProto, into an empty buffer again
TWriteProtoAgain ==
  /\ pc = "t.WriteProto"
  /\ buffer2' = WriteProto("TestMessage", t)
  /\ status' = OK
  /\ pc' = "t.WriteProto again"
  /\ UNCHANGED << items, buffer, t, ros_buffer, t2, ros_buffer2 >>
  /\ UNCHANGED << mux_vars, gen_vars, any_vars, buf_vars >>

\* a second t.WriteROS, into the empty ros_buffer2
TWriteROSAgain ==
  /\ pc = "t.WriteROS"
  /\ status = OK
  /\ LET w == WriteROS("TestMessage", t, ros_buffer2)
     IN  /\ ros_buffer2' = w.b
         /\ status' = w.st
  /\ pc' = "t.WriteROS again"
  /\ UNCHANGED << items, buffer, t, ros_buffer, t2, buffer2 >>
  /\ UNCHANGED << mux_vars, gen_vars, any_vars, buf_vars >>

\* t.SerializedProtoSize() and t.SerializedROSSize() after a write
TSerializedSize ==
  /\ pc \in {"t.WriteProto", "t.WriteROS"}
  /\ status = OK
  /\ out' = << SerializedProtoSize("TestMessage", t), SerializedROSSize("TestMessage", t) >>
  /\ pc' = IF pc = "t.WriteProto" THEN "t.WriteProto sized" ELSE "t.WriteROS sized"
  /\ UNCHANGED << items, buffer, t, ros_buffer, t2, buffer2, ros_buffer2, status >>
  /\ UNCHANGED << written, v, proto_buffer >>
  /\ UNCHANGED << mux_vars, gen_vars, any_vars >>

\* The bytes a ROS message is cut short by when it is handed over truncated.
MaxCut == 2

\* Message::ROSToProto over a ROS message that lost its last bytes:
\* ROSBuffer ros_buffer2(ros_buffer.data(), ros_buffer.size() - cut)
ROSToProtoShort ==
  /\ pc = "t.WriteROS"
  /\ status = OK
  /\ \E ub \in UBOutcomes, cut \in 1..MaxCut :
       LET Got(r) ==
             /\ t2' = r.msg
             /\ IF r.st # OK
                THEN status' = r.st /\ pc' = "t2.ParseROS short" /\ UNCHANGED buffer2
                ELSE /\ status' = OK
                     /\ pc' = "t2.WriteProto short"
                     /\ buffer2' = WriteProto("TestMessage", r.msg)
       IN  /\ cut <= Len(ros_buffer.mem)
           /\ Got(ParseROS("TestMessage", t2,
                           FixedBuffer(SubSeq(ros_buffer.mem, 1, Len(ros_buffer.mem) - cut), ub)))
  /\ UNCHANGED << items, buffer, t, ros_buffer, ros_buffer2 >>
  /\ UNCHANGED << mux_vars, gen_vars, any_vars, buf_vars >>

Next ==
  \/ TParseProto
  \/ TParseProtoAgain
  \/ TWriteProto
  \/ TWriteROS
  \/ ProtoToROS
  \/ T2ParseROS
  \/ T2ParseROSAgain
  \/ T2WriteProto
  \/ T2WriteROS
  \/ ROSToProto
  \/ ROSToProtoShort
  \/ TWriteProtoAgain
  \/ TWriteROSAgain
  \/ TSerializedSize

Spec == Init /\ [][Next]_vars

\* ================================================================ claims ====
T == "TestMessage"

\* The oneof slot u of a TestMessage and the field numbers of the input.
OneofOf(msg) == msg.slots[Len(Slots(T))]

Numbers(its) == {its[i].n : i \in 1..Len(its)}

\* Every record of the input is a declared field in its declared form.
DeclaredForms(its) == \A i \in 1..Len(its) : its[i].ref

\* The state a fresh instance is left in by parse_proto(bytes), and its status.
Parsed(bytes) == ParseProto(T, NewMessage(T), ProtoBuffer(bytes, "silent"))

\* C1: Proto->ROS->Proto is byte-identical: for reference-serialized input
\* bytes, the bytes t2 writes after parsing the ROS bytes t wrote equal the
\* input.
C1_ProtoROSProtoIdentical ==
  (pc = "t2.WriteProto" /\ IsReference(items)) => buffer2 = buffer

\* C2: Proto parse/write round trip: after parse_proto of reference-serialized
\* bytes without unknown fields, write_proto into an empty buffer yields the
\* same bytes.
C2_ParseWriteIdentical ==
  (pc = "t.WriteProto" /\ IsReference(items)) => buffer2 = buffer

\* C3: exact Protobuf sizing: after a successful parse_proto or parse_ros the
\* number of bytes WriteProto appends equals SerializedProtoSize.
C3_ExactProtoSize ==
  /\ (pc = "t.ParseProto" /\ status = OK)
       => Len(WriteProto(T, t)) = SerializedProtoSize(T, t)
  /\ (pc = "t2.ParseROS" /\ status = OK)
       => Len(WriteProto(T, t2)) = SerializedProtoSize(T, t2)

\* C4: exact ROS sizing: the number of bytes WriteROS appended equals
\* SerializedROSSize.
C4_ExactROSSize ==
  /\ (pc = "t.WriteROS" /\ status = OK)
       => Len(ros_buffer.mem) = SerializedROSSize(T, t)
  /\ (pc = "t2.WriteROS" /\ status = OK)
       => Len(ros_buffer2.mem) = SerializedROSSize(T, t2)

\* C5: ROS parse/write round trip: parse_ros of bytes produced by WriteROS
\* succeeds on a fresh instance, and write_ros then yields the same bytes.
C5_ROSRoundTrip ==
  /\ pc = "t2.ParseROS" => status = OK
  /\ pc = "t2.WriteROS" => status = OK /\ ros_buffer2.mem = ros_buffer.mem

\* C5 witness: the round trip of a repeated message whose element carries a
\* non-empty string and a scalar.
C5_Witness ==
  /\ pc = "t2.WriteROS"
  /\ \E i \in 1..Len(items) : items[i].n = 7 /\ Len(items[i].wire) > 2
  /\ Len(OneofOf(t2).value_) = 2
  /\ \E i \in 1..Len(t2.slots) :
       Slots(T)[i].kind = "MessageVector" /\ Len(t2.slots[i].msgs_) >= 1

\* C6: double parse is refused: a second parse on a populated instance returns
\* AlreadyPopulated and leaves the instance as the first parse left it; a
\* fresh instance is not populated.
C6_DoubleParseRefused ==
  /\ pc = "start" => ~IsPopulated(t) /\ ~IsPopulated(t2)
  /\ pc = "t.ParseProto again"
       => status = "AlreadyPopulated" /\ t = Parsed(buffer).msg
  /\ pc = "t2.ParseROS again"
       => status = "AlreadyPopulated"

\* The two encodings of the values 1..k of repeated field n.
PackableNumbers == {4, 9, 10, 11}

IsFixedNumber(n) == n \in {10, 11}

PackedForm(n, k) ==
  IF IsFixedNumber(n) THEN PackedFixedRun(n, k) ELSE PackedVarintRun(n, k)

UnpackedForm(n, k) ==
  Concat([i \in 1..k |-> IF IsFixedNumber(n) THEN SerializeFixed(n, i)
                          ELSE SerializeVarint(n, i, FALSE)])

\* C7: packed tolerance: whatever packing a repeated primitive field declares,
\* parse_proto accepts the packed run and the per-element encoding of the
\* same values, and both leave the same value sequence.
C7_PackedTolerance ==
  \A n \in PackableNumbers : \A k \in 1..MaxVecLen :
    (pc = "t.ParseProto" /\ buffer = PackedForm(n, k))
      => /\ status = OK
         /\ Parsed(UnpackedForm(n, k)).st = OK
         /\ Parsed(UnpackedForm(n, k)).msg = t

\* All records but the last.
Front(its) == SubSeq(its, 1, Len(its) - 1)

\* C8: unknown skip: parse_proto of valid bytes followed by a well-formed
\* record of an undeclared field returns Ok and leaves the state that
\* parse_proto of the valid bytes alone leaves.
C8_UnknownSkip ==
  (pc = "t.ParseProto" /\ Len(items) >= 1 /\ items[Len(items)] \in UnknownItems)
    => status = OK /\ t = Parsed(Wire(Front(items))).msg

RECURSIVE LastArm(_)
LastArm(its) ==
  IF its = << >> THEN 0
  ELSE IF its[Len(its)].n \in OneofNumbers THEN its[Len(its)].n
  ELSE LastArm(Front(its))

\* C10: a oneof slot records its active arm: after parse_proto, Discriminator()
\* is the number of the last arm dispatched (0 when none was), write_proto
\* emits that arm, and the discriminator is the same after Proto->ROS->Proto.
C10_DiscriminatorRecorded ==
  /\ (pc = "t.ParseProto" /\ status = OK /\ DeclaredForms(items))
       => Discriminator(OneofOf(t)) = LastArm(items)
  /\ (pc = "t2.ParseROS" /\ status = OK /\ DeclaredForms(items))
       => Discriminator(OneofOf(t2)) = LastArm(items)

\* The message with every presence bit, also those of the elements of its
\* repeated messages, set to p.
WithPresenceIn(slots, p) ==
  [i \in DOMAIN slots |-> [slots[i] EXCEPT !.present_ = p]]

WithPresence(msg, p) ==
  [msg EXCEPT !.slots =
     [i \in DOMAIN @ |->
        IF Slots(T)[i].kind = "MessageVector"
        THEN [@[i] EXCEPT !.present_ = p,
                          !.msgs_ = [k \in DOMAIN @ |->
                                       [@[k] EXCEPT !.slots = WithPresenceIn(@, p)]]]
        ELSE [@[i] EXCEPT !.present_ = p]]]

\* The fewest bytes the slots of a TestMessage take in ROS form: 4 for every
\* regular field, 4 for the discriminator and 4 for every member of the oneof.
MinROSBytes ==
  LET Count(S) ==
        Sum([i \in 1..Len(S) |->
               IF S[i].kind = "Union" THEN 4 + 4 * Len(S[i].members) ELSE 4])
  IN  Count(Slots(T))

\* C11: presence never suppresses ROS emission: the bytes WriteROS wrote are
\* the bytes it writes for the same message with every presence bit set and
\* with every presence bit cleared, and every slot, the discriminator and
\* every member of the oneof took its bytes.
C11_ROSIgnoresPresence ==
  (pc = "t.WriteROS" /\ status = OK)
    => /\ \A p \in BOOLEAN :
            WriteROS(T, WithPresence(t, p), OwnedBuffer) = [st |-> OK, b |-> ros_buffer]
       /\ Len(ros_buffer.mem) >= MinROSBytes

\* C11 witness: a buffer written from a message in which one singular scalar
\* is present and another is not.
C11_Witness ==
  /\ pc = "t.WriteROS"
  /\ status = OK
  /\ IsPresent(t.slots[1])
  /\ ~IsPresent(t.slots[2])
  /\ Len(ros_buffer.mem) >= MinROSBytes

\* ===================================================== message generator ====
\* A descriptor: the fields of a message in declaration order, each with the
\* oneof that contains it (0 for none), and the address of each
\* OneofDescriptor, which is the key unions_ is ordered by.
MaxFields == 4

MaxOneofs == 2

FieldDecls == [name : 1..MaxFields, oneof : 0..MaxOneofs]

\* The members of a oneof are declared together, and oneof k + 1 is declared
\* after oneof k.
WellFormed(field) ==
  /\ \A i \in 1..Len(field) : field[i].name = i
  /\ \A i \in 1..Len(field) : \A j \in (i + 1)..Len(field) :
       /\ (field[i].oneof # 0 /\ field[j].oneof # 0)
            => field[i].oneof <= field[j].oneof
       /\ (field[i].oneof # 0 /\ field[i].oneof = field[j].oneof)
            => \A k \in i..j : field[k].oneof = field[i].oneof
  /\ \A i \in 1..Len(field) :
       field[i].oneof > 1 => \E j \in 1..(i - 1) : field[j].oneof = field[i].oneof - 1

Descriptors ==
  { [field |-> f, oneof_addr |-> a] :
      f \in { g \in UNION { [1..n -> FieldDecls] : n \in 0..MaxFields } : WellFormed(g) },
      a \in { p \in [1..MaxOneofs -> 1..MaxOneofs] :
                \A i, j \in 1..MaxOneofs : p[i] = p[j] => i = j } }

\* field->containing_oneof()
containing_oneof(fd) == fd.oneof

\* unions_.find(oneof): the index of its entry, or 0 for end().
Find(unions, oneof) ==
  IF \E i \in 1..Len(unions) : unions[i].oneof = oneof
  THEN CHOOSE i \in 1..Len(unions) : unions[i].oneof = oneof
  ELSE 0

\* unions_[oneof] = union_info: std::map keeps its entries ordered by key,
\* which is the address of the OneofDescriptor.
Insert(unions, union_info, addr) ==
  LET Below == SelectSeq(unions, LAMBDA u : addr[u.oneof] < addr[union_info.oneof])
      Above == SelectSeq(unions, LAMBDA u : addr[u.oneof] > addr[union_info.oneof])
  IN  Below \o << union_info >> \o Above

\* struct UnionInfo, and the FieldInfo of a regular field
UnionInfoOf(oneof) == [kind |-> "oneof", oneof |-> oneof, members |-> << >>]

FieldInfoOf(fd) == [kind |-> "field", name |-> fd.name]

\* The loop of CompileFields from field i on; g holds fields_, unions_ and
\* fields_in_order_.
RECURSIVE CompileFieldsFrom(_, _, _)
CompileFieldsFrom(message, i, g) ==
  IF i > Len(message.field) THEN g
  ELSE LET oneof == containing_oneof(message.field[i])
           union_info == UnionInfoOf(oneof)
           info == FieldInfoOf(message.field[i])
       IN  IF oneof # 0
           THEN IF Find(g.unions, oneof) = 0
                THEN CompileFieldsFrom(message, i + 1,
                       [g EXCEPT !.unions = Insert(@, union_info, message.oneof_addr),
                                 !.in_order = Append(@, union_info)])
                ELSE CompileFieldsFrom(message, i + 1, g)
           ELSE CompileFieldsFrom(message, i + 1,
                  [g EXCEPT !.fields = Append(@, info),
                            !.in_order = Append(@, info)])

\* The loop of CompileUnions from field i on: each member is appended to the
\* UnionInfo of its oneof.
RECURSIVE CompileUnionsFrom(_, _, _)
CompileUnionsFrom(message, i, unions) ==
  IF i > Len(message.field) THEN unions
  ELSE LET oneof == containing_oneof(message.field[i])
           at == Find(unions, oneof)
       IN  IF oneof = 0 THEN CompileUnionsFrom(message, i + 1, unions)
           ELSE CompileUnionsFrom(message, i + 1,
                  [unions EXCEPT ![at].members =
                     Append(@, FieldInfoOf(message.field[i]))])

\* The statements the generated WriteROS, ParseROS and size functions are
\* made of: one per entry of fields_, then one per entry of unions_.
Visited(info) ==
  IF info.kind = "oneof" THEN << "oneof", info.oneof >> ELSE << "field", info.name >>

GeneratedOrder(fields, unions) ==
  [i \in 1..Len(fields) |-> Visited(fields[i])]
    \o [i \in 1..Len(unions) |-> Visited(unions[i])]

GenInit ==
  /\ message_ \in Descriptors
  /\ fields_ = << >>
  /\ unions_ = << >>
  /\ fields_in_order_ = << >>
  /\ gen_pc = "constructed"
  /\ MsgIdle
  /\ MuxIdle
  /\ AnyIdle
  /\ BufIdle

CompileFields ==
  /\ gen_pc = "constructed"
  /\ LET Done(g) ==
           /\ fields_' = g.fields
           /\ unions_' = g.unions
           /\ fields_in_order_' = g.in_order
     IN  Done(CompileFieldsFrom(message_, 1,
                [fields |-> fields_, unions |-> unions_,
                 in_order |-> fields_in_order_]))
  /\ gen_pc' = "CompileFields"
  /\ UNCHANGED << message_, msg_vars, mux_vars, any_vars, buf_vars >>

CompileUnions ==
  /\ gen_pc = "CompileFields"
  /\ unions_' = CompileUnionsFrom(message_, 1, unions_)
  /\ gen_pc' = "CompileUnions"
  /\ UNCHANGED << message_, fields_, fields_in_order_, msg_vars, mux_vars, any_vars, buf_vars >>

GenNext ==
  \/ CompileFields
  \/ CompileUnions

SpecGen == GenInit /\ [][GenNext]_vars

\* The slots of the message in schema declaration order: every regular field,
\* and every oneof at the position of its first declared member.
RECURSIVE DeclarationOrder(_, _)
DeclarationOrder(field, seen) ==
  IF field = << >> THEN << >>
  ELSE IF Head(field).oneof = 0
  THEN << << "field", Head(field).name >> >> \o DeclarationOrder(Tail(field), seen)
  ELSE IF Head(field).oneof \in seen THEN DeclarationOrder(Tail(field), seen)
  ELSE << << "oneof", Head(field).oneof >> >>
         \o DeclarationOrder(Tail(field), seen \cup {Head(field).oneof})

\* C12: slot order: the generated functions visit the slots in schema
\* declaration order, each oneof once at the position of its first declared
\* member, several oneofs in declaration order.
C12_SlotOrder ==
  gen_pc = "CompileUnions"
    => GeneratedOrder(fields_, unions_) = DeclarationOrder(message_.field, {})

\* ---------------------------------------------------------------- C13 ----
\* The slots of TestMessage that hold a singular scalar.
ScalarSlots == {i \in 1..Len(Slots(T)) : Slots(T)[i].kind = "Primitive"}

\* The singular scalar in slot i is present in msg exactly when its tag was
\* in the input.
PresentAsTagged(msg, S, i) == IsPresent(msg.slots[i]) <=> (S[i].number \in Numbers(items))

\* C13: singular-scalar presence across the ROS step: a singular scalar whose
\* tag appeared in the Protobuf input (value 0 included) is present after
\* parse_proto and is present, and so emitted, after Proto->ROS->Proto; one
\* whose tag did not appear stays absent and is not emitted.
C13_ScalarPresenceAcrossROS ==
  /\ (pc = "t.ParseProto" /\ status = OK)
       => \A i \in ScalarSlots : PresentAsTagged(t, Slots(T), i)
  /\ pc = "t2.WriteProto"
       => /\ \A i \in ScalarSlots : PresentAsTagged(t2, Slots(T), i)
          /\ (Numbers(items) = {1}) => buffer2 = buffer

\* ---------------------------------------------------------------- C14 ----
\* The slots of TestMessage that hold a repeated field, and the number of
\* elements such a field holds.
RepeatedSlots == {i \in 1..Len(Slots(T)) : is_repeated(Slots(T)[i])}

size(fd, f) ==
  CASE fd.kind = "PrimitiveVector" -> Len(f.values_)
    [] fd.kind = "StringVector"    -> Len(f.strings_)
    [] fd.kind = "MessageVector"   -> Len(f.msgs_)

PresentIffNonEmpty(msg, S) ==
  \A i \in RepeatedSlots : IsPresent(msg.slots[i]) <=> (size(S[i], msg.slots[i]) > 0)

\* C14: repeated-field presence: after a successful parse_proto or parse_ros
\* every repeated field reports IsPresent() exactly when its sequence is
\* non-empty.
C14_RepeatedPresence ==
  /\ (pc = "t.ParseProto" /\ status = OK) => PresentIffNonEmpty(t, Slots(T))
  /\ (pc = "t2.ParseROS" /\ status = OK) => PresentIffNonEmpty(t2, Slots(T))

\* ============================================================ multiplexer ====
\* The generated message types and the names they register under.
MessageTypes == {"TestMessage", "Inner"}

FullName(Ty) == IF Ty = "Inner" THEN "foo.bar.Inner" ELSE "foo.bar.TestMessage"

\* struct MultiplexerInfo: each function pointer is the message type whose
\* generated member function it calls.
MultiplexerInfo(Ty) ==
  [parse_proto |-> Ty, parse_ros |-> Ty, write_proto |-> Ty, write_ros |-> Ty,
   serialized_proto_size |-> Ty, serialized_ros_size |-> Ty,
   create_message |-> Ty]

\* absl::InternalError("Unknown sato message type '%s'")
UnknownMessageType == "INTERNAL: Unknown sato message type"

\* (*sato_multiplexers)[name] = info
Assign(map, name, info) ==
  [n \in (DOMAIN map) \cup {name} |-> IF n = name THEN info ELSE map[n]]

\* sato_multiplexers->find(message_type): the key of the entry found, or
\* nothing for end().  Through a null sato_multiplexers the call is undefined:
\* the process stops, or the read finds nothing.
find(registry, name, ub) ==
  IF registry = NULL
  THEN [st |-> IF ub = "crash" THEN "crash" ELSE OK, it |-> << >>]
  ELSE [st |-> OK, it |-> IF name \in DOMAIN registry[1] THEN << name >> ELSE << >>]

\* if (it == end()) return InternalError(...); return &it->second;
Found(registry, found) ==
  IF found.st # OK THEN [st |-> found.st, info |-> NULL]
  ELSE IF found.it = << >> THEN [st |-> UnknownMessageType, info |-> NULL]
  ELSE [st |-> OK, info |-> << registry[1][found.it[1]] >>]

\* A lookup that is routed to another key than the one asked for.
GetMultiplexerInfoOther(name, ub) ==
  Found(sato_multiplexers, find(sato_multiplexers, "foo.bar.Missing", ub))

GetMultiplexerInfo(name, ub) ==
  Found(sato_multiplexers, find(sato_multiplexers, name, ub))

\* The names the callers pass: the name of the instance's own type, and a
\* name no message type has.
CallNames == {FullName("TestMessage"), "foo.bar.Missing"}

LookupNames == {FullName(Ty) : Ty \in MessageTypes} \cup {"foo.bar.Missing"}

\* The Protobuf inputs of the multiplexer calls.
MuxInputs == {its \in ItemSeqs : Len(its) <= 1}

MuxInit ==
  /\ items \in MuxInputs
  /\ buffer = Wire(items)
  /\ t = NewMessage("TestMessage")
  /\ t2 = NewMessage("TestMessage")
  /\ ros_buffer = OwnedBuffer
  /\ ros_buffer2 = OwnedBuffer
  /\ buffer2 = << >>
  /\ status = OK
  /\ pc = "start"
  /\ MuxIdle
  /\ GenIdle
  /\ AnyIdle
  /\ BufIdle

\* Static initialization: a generated message type registers its vtable.
MultiplexerRegisterMessage ==
  /\ startup
  /\ \E Ty \in MessageTypes :
       sato_multiplexers' =
         << Assign(IF sato_multiplexers = NULL THEN << >> ELSE sato_multiplexers[1],
                   FullName(Ty), MultiplexerInfo(Ty)) >>
  /\ UNCHANGED << startup, lookup, message_type, result >>
  /\ UNCHANGED << msg_vars, gen_vars, any_vars, buf_vars >>

\* Static initialization is over: main() runs and threads start.
main ==
  /\ startup
  /\ startup' = FALSE
  /\ UNCHANGED << sato_multiplexers, lookup, message_type, result >>
  /\ UNCHANGED << msg_vars, gen_vars, any_vars, buf_vars >>

Running == ~startup /\ status # "crash"

MultiplexerCreateMessage ==
  /\ Running
  /\ pc = "start"
  /\ \E name \in CallNames, ub \in UBOutcomes :
       LET Got(mi) ==
             /\ status' = IF mi.st = "crash" THEN "crash" ELSE status
             /\ result' = IF mi.st # OK THEN NULL
                          ELSE << NewMessage(mi.info[1].create_message) >>
       IN  Got(GetMultiplexerInfo(name, ub)) /\ message_type' = name
  /\ pc' = "MultiplexerCreateMessage"
  /\ UNCHANGED << sato_multiplexers, startup, lookup >>
  /\ UNCHANGED << items, buffer, t, ros_buffer, t2, buffer2, ros_buffer2 >>
  /\ UNCHANGED << gen_vars, any_vars, buf_vars >>

MultiplexerParseProto ==
  /\ Running
  /\ pc = "start"
  /\ \E name \in CallNames, ub \in UBOutcomes, ub2 \in UBOutcomes :
       LET Called(r) == t' = r.msg /\ status' = r.st
           Got(mi) ==
             IF mi.st # OK THEN status' = mi.st /\ UNCHANGED t
             ELSE Called(ParseProto(mi.info[1].parse_proto, t, ProtoBuffer(buffer, ub2)))
       IN  Got(GetMultiplexerInfo(name, ub)) /\ message_type' = name
  /\ pc' = "MultiplexerParseProto"
  /\ UNCHANGED << sato_multiplexers, startup, lookup, result >>
  /\ UNCHANGED << items, buffer, ros_buffer, t2, buffer2, ros_buffer2 >>
  /\ UNCHANGED << gen_vars, any_vars, buf_vars >>

MultiplexerWriteROS ==
  /\ Running
  /\ pc = "MultiplexerParseProto"
  /\ \E name \in CallNames, ub \in UBOutcomes :
       LET Called(w) == ros_buffer' = w.b /\ status' = w.st
           Got(mi) ==
             IF mi.st # OK THEN status' = mi.st /\ UNCHANGED ros_buffer
             ELSE Called(WriteROS(mi.info[1].write_ros, t, ros_buffer))
       IN  Got(GetMultiplexerInfo(name, ub)) /\ message_type' = name
  /\ pc' = "MultiplexerWriteROS"
  /\ UNCHANGED << sato_multiplexers, startup, lookup, result >>
  /\ UNCHANGED << items, buffer, t, t2, buffer2, ros_buffer2 >>
  /\ UNCHANGED << gen_vars, any_vars, buf_vars >>

MultiplexerWriteProto ==
  /\ Running
  /\ pc = "MultiplexerParseProto"
  /\ \E name \in CallNames, ub \in UBOutcomes :
       LET Got(mi) ==
             IF mi.st # OK THEN status' = mi.st /\ UNCHANGED buffer2
             ELSE /\ buffer2' = WriteProto(mi.info[1].write_proto, t)
                  /\ status' = OK
       IN  Got(GetMultiplexerInfo(name, ub)) /\ message_type' = name
  /\ pc' = "MultiplexerWriteProto"
  /\ UNCHANGED << sato_multiplexers, startup, lookup, result >>
  /\ UNCHANGED << items, buffer, t, ros_buffer, t2, ros_buffer2 >>
  /\ UNCHANGED << gen_vars, any_vars, buf_vars >>

\* t2 parses the ROS bytes t wrote.
MultiplexerParseROS ==
  /\ Running
  /\ pc = "MultiplexerWriteROS"
  /\ status = OK
  /\ \E name \in CallNames, ub \in UBOutcomes, ub2 \in UBOutcomes :
       LET Called(r) == t2' = r.msg /\ status' = r.st
           Got(mi) ==
             IF mi.st # OK THEN status' = mi.st /\ UNCHANGED t2
             ELSE Called(ParseROS(mi.info[1].parse_ros, t2,
                                  FixedBuffer(ros_buffer.mem, ub2)))
       IN  Got(GetMultiplexerInfo(name, ub)) /\ message_type' = name
  /\ pc' = "MultiplexerParseROS"
  /\ UNCHANGED << sato_multiplexers, startup, lookup, result >>
  /\ UNCHANGED << items, buffer, t, ros_buffer, buffer2, ros_buffer2 >>
  /\ UNCHANGED << gen_vars, any_vars, buf_vars >>

MultiplexerSerializedProtoSize ==
  /\ Running
  /\ pc = "MultiplexerParseProto"
  /\ \E name \in CallNames, ub \in UBOutcomes :
       LET Got(mi) ==
             IF mi.st # OK THEN status' = mi.st /\ UNCHANGED result
             ELSE /\ result' = << SerializedProtoSize(mi.info[1].serialized_proto_size, t) >>
                  /\ status' = OK
       IN  Got(GetMultiplexerInfo(name, ub)) /\ message_type' = name
  /\ pc' = "MultiplexerSerializedProtoSize"
  /\ UNCHANGED << sato_multiplexers, startup, lookup >>
  /\ UNCHANGED << items, buffer, t, ros_buffer, t2, buffer2, ros_buffer2 >>
  /\ UNCHANGED << gen_vars, any_vars, buf_vars >>

MultiplexerSerializedROSSize ==
  /\ Running
  /\ pc = "MultiplexerParseProto"
  /\ \E name \in CallNames, ub \in UBOutcomes :
       LET Got(mi) ==
             IF mi.st # OK THEN status' = mi.st /\ UNCHANGED result
             ELSE /\ result' = << SerializedROSSize(mi.info[1].serialized_ros_size, t) >>
                  /\ status' = OK
       IN  Got(GetMultiplexerInfo(name, ub)) /\ message_type' = name
  /\ pc' = "MultiplexerSerializedROSSize"
  /\ UNCHANGED << sato_multiplexers, startup, lookup >>
  /\ UNCHANGED << items, buffer, t, ros_buffer, t2, buffer2, ros_buffer2 >>
  /\ UNCHANGED << gen_vars, any_vars, buf_vars >>

\* A thread enters GetMultiplexerInfo and reads the map:
\* auto it = sato_multiplexers->find(message_type)
LookupFindInserting(th) ==
  /\ ~startup
  /\ lookup[th].at \in {"idle", "returned"}
  /\ sato_multiplexers # NULL
  /\ \E name \in LookupNames :
       /\ sato_multiplexers' =
            << Assign(sato_multiplexers[1], name,
                      IF name \in DOMAIN sato_multiplexers[1]
                      THEN sato_multiplexers[1][name]
                      ELSE MultiplexerInfo("")) >>
       /\ lookup' = [lookup EXCEPT ![th] =
                       [at |-> "find", message_type |-> name, it |-> << name >>]]
  /\ UNCHANGED << startup, message_type, result >>
  /\ UNCHANGED << msg_vars, gen_vars, any_vars, buf_vars >>

LookupFind(th) ==
  /\ ~startup
  /\ lookup[th].at \in {"idle", "returned"}
  /\ \E name \in LookupNames, ub \in UBOutcomes :
       LET Got(found) ==
             lookup' = [lookup EXCEPT ![th] =
                          IF found.st # OK THEN [at |-> "crash"]
                          ELSE [at |-> "find", message_type |-> name,
                                it |-> found.it]]
       IN  Got(find(sato_multiplexers, name, ub))
  /\ UNCHANGED << sato_multiplexers, startup, message_type, result >>
  /\ UNCHANGED << msg_vars, gen_vars, any_vars, buf_vars >>

\* The thread compares it with end() and returns.
LookupReturn(th) ==
  /\ lookup[th].at = "find"
  /\ lookup' = [lookup EXCEPT ![th] =
                  [at |-> "returned", message_type |-> lookup[th].message_type,
                   r |-> Found(sato_multiplexers, [st |-> OK, it |-> lookup[th].it])]]
  /\ UNCHANGED << sato_multiplexers, startup, message_type, result >>
  /\ UNCHANGED << msg_vars, gen_vars, any_vars, buf_vars >>

MuxNext ==
  \/ MultiplexerRegisterMessage
  \/ main
  \/ MultiplexerCreateMessage
  \/ MultiplexerParseProto
  \/ MultiplexerWriteROS
  \/ MultiplexerWriteProto
  \/ MultiplexerParseROS
  \/ MultiplexerSerializedProtoSize
  \/ MultiplexerSerializedROSSize
  \/ \E th \in Threads : LookupFind(th)
  \/ \E th \in Threads : LookupReturn(th)

SpecMux == MuxInit /\ [][MuxNext]_vars

\* ---------------------------------------------------------------- C15 ----
\* name is a key of the registry.
Registered(name) ==
  sato_multiplexers # NULL /\ name \in DOMAIN sato_multiplexers[1]

\* C15: unknown registry name: a Multiplexer operation given a name that is
\* not registered returns the unknown-type error and leaves the message, the
\* buffers and the registry as they were; MultiplexerCreateMessage returns
\* null.
C15_UnknownName ==
  [][ (pc' # pc /\ ~Registered(message_type'))
        => /\ IF pc' = "MultiplexerCreateMessage"
              THEN status' = status /\ result' = NULL
              ELSE status' = UnknownMessageType /\ result' = result
           /\ UNCHANGED << t, t2, buffer, ros_buffer, buffer2, ros_buffer2 >>
           /\ UNCHANGED sato_multiplexers ]_vars

\* ---------------------------------------------------------------- C16 ----
\* C16: multiplexer dispatch equivalence: with the name of TestMessage
\* registered, MultiplexerParseProto / MultiplexerWriteROS /
\* MultiplexerWriteProto given that name return the status and leave the
\* message and the output bytes that the direct call t.ParseProto / t.WriteROS
\* / t.WriteProto does.
C16_DispatchEquivalence ==
  [][ (pc' # pc /\ message_type' = FullName(T) /\ Registered(message_type'))
        => /\ pc' = "MultiplexerParseProto"
                => \E ub \in UBOutcomes :
                     LET Same(r) == status' = r.st /\ t' = r.msg
                     IN  Same(ParseProto(T, t, ProtoBuffer(buffer, ub)))
           /\ pc' = "MultiplexerWriteROS"
                => WriteROS(T, t, ros_buffer) = [st |-> status', b |-> ros_buffer']
           /\ pc' = "MultiplexerWriteProto"
                => status' = OK /\ buffer2' = WriteProto(T, t) ]_vars

C16_Witness ==
  /\ pc = "MultiplexerWriteProto"
  /\ message_type = FullName(T)
  /\ Registered(message_type)
  /\ status = OK
  /\ IsPresent(t.slots[1])
  /\ buffer2 = buffer
  /\ buffer2 # << >>

\* ---------------------------------------------------------------- C17 ----
\* What a finished lookup of a registered name must have returned: the entry
\* stored under that name, which is the vtable of the type of that name.
ReturnedRegistered(l, map) ==
  /\ l.r = [st |-> OK, info |-> << map[l.message_type] >>]
  /\ \E Ty \in MessageTypes :
       l.message_type = FullName(Ty) /\ l.r.info[1] = MultiplexerInfo(Ty)

\* C17: the registry is read-only after startup: once static initialization
\* is over no step adds, removes or modifies a registry entry, and in every
\* interleaving of the threads' lookups a lookup of a registered name returns
\* that name's registered entry.
C17_ReadOnlyRegistry ==
  [][ /\ ~startup => UNCHANGED sato_multiplexers
      /\ \A th \in Threads :
           (lookup'[th].at = "returned" /\ Registered(lookup'[th].message_type))
             => ReturnedRegistered(lookup'[th], sato_multiplexers[1]) ]_vars

C17_Witness ==
  /\ ~startup
  /\ \A th \in Threads :
       lookup[th].at = "returned" /\ Registered(lookup[th].message_type)
  /\ lookup[1].message_type # lookup[2].message_type
  /\ pc = "MultiplexerWriteProto"

\* ==================================================================== Any ====
\* std::string::npos
npos == -1

\* type.find('/'): the 0-based position of the first ch, or npos.
StringFind(str, ch) ==
  LET At == {i \in 1..Len(str) : str[i] = ch}
  IN  IF At = {} THEN npos ELSE (CHOOSE i \in At : \A j \in At : i <= j) - 1

\* type.substr(pos): the characters from 0-based position pos on.
Substr(str, pos) == SubSeq(str, pos + 1, Len(str))

MessageTypeNameKeepSlash(type_url) ==
  LET Got(pos) == IF pos # npos THEN Substr(type_url, pos) ELSE type_url
  IN  Got(StringFind(type_url, "/"))

\* AnyMessage::MessageTypeName
MessageTypeName(type_url) ==
  LET Got(pos) == IF pos # npos THEN Substr(type_url, pos + 1) ELSE type_url
  IN  Got(StringFind(type_url, "/"))

\* The type URLs an Any carries: names over a small alphabet, bare or behind
\* the type.googleapis.com/ prefix.
MaxNameLen == 3

Chars == {"a", ".", "/"}

Names == UNION { [1..k -> Chars] : k \in 0..MaxNameLen }

Prefix ==
  << "t", "y", "p", "e", ".", "g", "o", "o", "g", "l", "e", "a", "p", "i", "s",
     ".", "c", "o", "m" >>

TypeUrls == Names \cup {Prefix \o << "/" >> \o fqn : fqn \in Names}

AnyInit ==
  /\ type_url_ \in TypeUrls
  /\ type = << >>
  /\ value_ = NULL
  /\ phaser_bank = << >>
  /\ items = << >>
  /\ buffer = << >>
  /\ t = NewMessage("TestMessage")
  /\ t2 = NewMessage("TestMessage")
  /\ ros_buffer = OwnedBuffer
  /\ ros_buffer2 = OwnedBuffer
  /\ buffer2 = << >>
  /\ status = OK
  /\ pc = "start"
  /\ MuxIdle
  /\ GenIdle
  /\ BufIdle

\* std::string type = MessageTypeName()
AnyMessageTypeName ==
  /\ pc = "start"
  /\ type' = MessageTypeName(type_url_)
  /\ pc' = "MessageTypeName"
  /\ UNCHANGED << type_url_, value_, phaser_bank >>
  /\ UNCHANGED << items, buffer, t, ros_buffer, t2, buffer2, ros_buffer2, status >>
  /\ UNCHANGED << mux_vars, gen_vars, buf_vars >>

AnyNext == AnyMessageTypeName

SpecAny == AnyInit /\ [][AnyNext]_vars

\* ---------------------------------------------------------------- C18 ----
\* C18: registry key derivation for Any: the key computed from a type_url
\* type.googleapis.com/<FQN> is exactly <FQN>, and a type_url without a '/'
\* is the key unchanged.
C18_KeyDerivation ==
  pc = "MessageTypeName"
    => /\ \A fqn \in Names :
            type_url_ = Prefix \o << "/" >> \o fqn => type = fqn
       /\ (\A i \in 1..Len(type_url_) : type_url_[i] # "/") => type = type_url_

C18_Witness ==
  /\ pc = "MessageTypeName"
  /\ type_url_ = Prefix \o << "/", "a", ".", "a" >>
  /\ type = << "a", ".", "a" >>

Short(cut, ub) ==
  FixedBuffer(SubSeq(ros_buffer.mem, 1, Len(ros_buffer.mem) - cut), ub)

\* C20: errors propagate verbatim and stop the pipeline: when ParseProto
\* fails, ProtoToROS returns that status and the ROS buffer is untouched,
\* otherwise it returns the status of WriteROS; when ParseROS fails,
\* ROSToProto returns that status and nothing is written to the Protobuf
\* buffer.
C20_ErrorsStopPipeline ==
  /\ (pc = "t.ParseProto" /\ status # OK)
       => /\ ros_buffer = OwnedBuffer
          /\ \E ub \in UBOutcomes :
               ParseProto(T, NewMessage(T), ProtoBuffer(buffer, ub)).st = status
  /\ pc = "t.WriteROS"
       => WriteROS(T, t, OwnedBuffer) = [st |-> status, b |-> ros_buffer]
  /\ pc = "t2.ParseROS short"
       => /\ status # OK
          /\ buffer2 = << >>
          /\ \E ub \in UBOutcomes, cut \in 1..MaxCut :
               LET Same(r) == r.st = status /\ r.msg = t2
               IN  Same(ParseROS(T, NewMessage(T), Short(cut, ub)))

C20_Witness ==
  /\ pc = "t2.ParseROS short"
  /\ status # OK
  /\ buffer2 = << >>
  /\ Len(ros_buffer.mem) >= MinROSBytes
  /\ IsPresent(t.slots[1])

\* ================================================================ buffers ====
\* Buffer(char *addr, size_t size) over caller-owned memory that is to be
\* written: nothing is written yet.
BorrowedBuffer(S, ub) ==
  [owned_ |-> FALSE, size_ |-> S, mem |-> << >>, addr_ |-> 0,
   overrun |-> FALSE, ub |-> ub]

\* The values written: a scalar, and strings up to one byte more than an
\* owned buffer of the initial size holds after one doubling.
Scalars == {[kind |-> "Primitive", val |-> 7]}

Strings(lens) == {[kind |-> "String", val |-> Str(k)] : k \in lens}

WriteValues == Scalars \cup Strings({0, 1, kInitialSize - 4, 2 * kInitialSize - 3})

\* The values read back: scalars, strings and vectors of either.
ReadValues ==
  Scalars \cup Strings(0..(MaxStrLen + 1))
  \cup {[kind |-> "Vector", el |-> "Primitive", val |-> [i \in 1..k |-> i]] : k \in 0..MaxVecLen}
  \cup {[kind |-> "Vector", el |-> "String", val |-> [i \in 1..k |-> Str(1)]] : k \in 0..MaxVecLen}

\* The sizes of the caller-owned memory.
BorrowedSizes == {0, SizeofT, SizeofT + 2, kInitialSize}

\* The writes made on one buffer.
MaxWrites == 2

\* Write(b, x) and Read(b, x) by the type of x.
WriteValue(b, x) ==
  CASE x.kind = "Primitive" -> Write(b, x.val)
    [] x.kind = "String" -> WriteString(b, x.val)
    [] OTHER -> WriteVector([kind |-> x.el], b, x.val)

ReadValue(b, x) ==
  CASE x.kind = "Primitive" -> Read(b, 0)
    [] x.kind = "String" -> ReadString(b, << >>)
    [] OTHER -> ReadVector([kind |-> x.el], b, << >>,
                           IF x.el = "String" THEN << >> ELSE 0)

\* The full encoding of x.
Encoding(x) == WriteValue(OwnedBuffer, x).b.mem

BufInit ==
  /\ ros_buffer \in {OwnedBuffer} \cup {BorrowedBuffer(S, "silent") : S \in BorrowedSizes}
  /\ ros_buffer2 = OwnedBuffer
  /\ written = << >>
  /\ v = << >>
  /\ out = << >>
  /\ proto_buffer = ProtoBuffer(<< >>, "silent")
  /\ items = << >>
  /\ buffer = << >>
  /\ t = NewMessage("TestMessage")
  /\ t2 = NewMessage("TestMessage")
  /\ buffer2 = << >>
  /\ status = OK
  /\ pc = "start"
  /\ MuxIdle
  /\ GenIdle
  /\ AnyIdle

\* Write(ros_buffer, x) for a scalar or a string x
BufWrite ==
  /\ pc \in {"start", "Write"}
  /\ Len(written) < MaxWrites
  /\ \E x \in WriteValues :
       LET Got(w) == ros_buffer' = w.b /\ status' = w.st
       IN  Got(WriteValue(ros_buffer, x)) /\ written' = Append(written, x)
  /\ pc' = "Write"
  /\ UNCHANGED << items, buffer, t, t2, buffer2, ros_buffer2, v, out, proto_buffer >>
  /\ UNCHANGED << mux_vars, gen_vars, any_vars >>

\* ROSBuffer ros_buffer2(data, size) over the encoding of a value that lost
\* its last bytes
BufOpen ==
  /\ pc = "start"
  /\ \E x \in ReadValues, cut \in 0..MaxCut, ub \in UBOutcomes :
       /\ cut <= Len(Encoding(x))
       /\ v' = x
       /\ ros_buffer2' = FixedBuffer(SubSeq(Encoding(x), 1, Len(Encoding(x)) - cut), ub)
  /\ pc' = "open"
  /\ UNCHANGED << items, buffer, t, t2, buffer2, ros_buffer, status, written, out, proto_buffer >>
  /\ UNCHANGED << mux_vars, gen_vars, any_vars >>

\* Read(ros_buffer2, x) for a value of the type of v
BufRead ==
  /\ pc = "open"
  /\ LET Got(r) ==
           /\ ros_buffer2' = r.b
           /\ status' = r.st
           /\ out' = Append(out, r.v)
     IN  Got(ReadValue(ros_buffer2, v))
  /\ pc' = "Read"
  /\ UNCHANGED << items, buffer, t, t2, buffer2, ros_buffer, written, v, proto_buffer >>
  /\ UNCHANGED << mux_vars, gen_vars, any_vars >>

BufNext ==
  \/ BufWrite
  \/ BufOpen
  \/ BufRead

SpecBuf == BufInit /\ [][BufNext]_vars

\* ---------------------------------------------------------------- C21 ----
\* The bytes Write(b, x) asks HasSpaceFor for.
Needed(x) == IF x.kind = "Primitive" THEN SizeofT ELSE 4 + Len(x.val)

Last(s) == s[Len(s)]

C22_TruncatedRead ==
  (pc = "Read" /\ ros_buffer2.size_ < Len(Encoding(v)))
    => status = "Internal" /\ ros_buffer2.addr_ <= ros_buffer2.size_

ParseProtoIterationPeeking(Ty, msg, b) ==
  LET Skipped(k) == [st |-> k.st, msg |-> msg, b |-> b]
      Stored(i, p) ==
        [st |-> p.st, msg |-> [msg EXCEPT !.slots[i] = p.f], b |-> p.b]
      Case(tag, field_number, i, fd) ==
        IF fd.kind = "Union"
        THEN Stored(i, UnionParseProto(fd, msg.slots[i],
                           CaseOf(fd, field_number), tag.b))
        ELSE Stored(i, FieldParseProto(fd, msg.slots[i], tag.b))
      Switch(tag, field_number, i) ==
        IF i = 0 THEN Skipped(SkipTag(tag.b, tag.v))
        ELSE Case(tag, field_number, i, Slots(Ty)[i])
      Got(tag) ==
        IF tag.st # OK THEN [st |-> tag.st, msg |-> msg, b |-> tag.b]
        ELSE Switch(tag, tag.v \div (2 ^ kFieldIdShift),
                    SlotOf(Ty, tag.v \div (2 ^ kFieldIdShift)))
  IN  Got(DeserializeVarint(b, FALSE))

\* One pass of the body of the while loop of ParseProto: the tag, then the
\* case of the switch it selects.
ParseProtoIteration(Ty, msg, b) ==
  LET Skipped(k) == [st |-> k.st, msg |-> msg, b |-> k.b]
      Stored(i, p) ==
        [st |-> p.st, msg |-> [msg EXCEPT !.slots[i] = p.f], b |-> p.b]
      Case(tag, field_number, i, fd) ==
        IF fd.kind = "Union"
        THEN Stored(i, UnionParseProto(fd, msg.slots[i],
                           CaseOf(fd, field_number), tag.b))
        ELSE Stored(i, FieldParseProto(fd, msg.slots[i], tag.b))
      Switch(tag, field_number, i) ==
        IF i = 0 THEN Skipped(SkipTag(tag.b, tag.v))
        ELSE Case(tag, field_number, i, Slots(Ty)[i])
      Got(tag) ==
        IF tag.st # OK THEN [st |-> tag.st, msg |-> msg, b |-> tag.b]
        ELSE Switch(tag, tag.v \div (2 ^ kFieldIdShift),
                    SlotOf(Ty, tag.v \div (2 ^ kFieldIdShift)))
  IN  Got(DeserializeVarint(b, FALSE))

\* Arbitrary bytes: tags of field 0, of declared and of undeclared fields in
\* several wire types, small lengths, and bytes with the continuation bit.
MaxRaw == 3

RawBytes == {0, 1, 8, 58, 82, 128, 255}

RawInputs == UNION { [1..k -> RawBytes] : k \in 0..MaxRaw }

\* The wire of some records with its last bytes cut off.
CutInputs ==
  { SubSeq(Wire(its), 1, Len(Wire(its)) - cut) :
      its \in Inputs, cut \in 0..MaxCut }

\* ProtoBuffer proto_buffer(bytes); t.ParseProto(proto_buffer) is entered
ParseProtoCall ==
  /\ pc = "idle"
  /\ \E bytes \in RawInputs \cup CutInputs, ub \in UBOutcomes :
       /\ buffer' = bytes
       /\ proto_buffer' = ProtoBuffer(bytes, ub)
  /\ pc' = "ParseProto"
  /\ UNCHANGED << items, t, t2, buffer2, ros_buffer, ros_buffer2, status >>
  /\ UNCHANGED << written, v, out >>
  /\ UNCHANGED << mux_vars, gen_vars, any_vars >>

\* while (!buffer.Eof()) { ... }: one pass of the body; an error returns
ParseProtoIterate ==
  /\ pc = "ParseProto"
  /\ ~Eof(proto_buffer)
  /\ \E r \in {ParseProtoIteration("TestMessage", t, proto_buffer)} :
       /\ t' = r.msg
       /\ proto_buffer' = r.b
       /\ status' = r.st
       /\ pc' = IF r.st = OK THEN "ParseProto" ELSE "return"
  /\ out' = Append(out, proto_buffer.pos)
  /\ UNCHANGED << items, buffer, t2, buffer2, ros_buffer, ros_buffer2 >>
  /\ UNCHANGED << written, v >>
  /\ UNCHANGED << mux_vars, gen_vars, any_vars >>

\* the loop test fails: return absl::OkStatus()
ParseProtoReturn ==
  /\ pc = "ParseProto"
  /\ Eof(proto_buffer)
  /\ status' = OK
  /\ pc' = "return"
  /\ UNCHANGED << items, buffer, t, t2, buffer2, ros_buffer, ros_buffer2 >>
  /\ UNCHANGED << written, v, out, proto_buffer >>
  /\ UNCHANGED << mux_vars, gen_vars, any_vars >>

\* ---- AnyMessage::Deserialize, pass by pass
\* The characters of the names and type URLs, with their byte values.
Ascii ==
  [c \in {"a", ".", "/", "t", "y", "p", "e", "g", "o", "l", "i", "s", "c", "m"} |->
     CASE c = "a" -> 97 [] c = "." -> 46 [] c = "/" -> 47 [] c = "t" -> 116
       [] c = "y" -> 121 [] c = "p" -> 112 [] c = "e" -> 101 [] c = "g" -> 103
       [] c = "o" -> 111 [] c = "l" -> 108 [] c = "i" -> 105 [] c = "s" -> 115
       [] c = "c" -> 99 [] OTHER -> 109]

\* The bytes of a string, and the string some bytes are.
BytesOf(str) == [i \in 1..Len(str) |-> Ascii[str[i]]]

StringOf(bytes) ==
  [i \in 1..Len(bytes) |-> CHOOSE c \in DOMAIN Ascii : Ascii[c] = bytes[i]]

\* The full name under which the message type Inner registers.
InnerName == << "a", ".", "a" >>

\* PhaserBankBinarySize(type): the size of the type registered as type, or
\* the unknown-type error.
PhaserBankBinarySize(bank, ty) ==
  IF ty \in DOMAIN bank THEN [st |-> OK, v |-> SizeofInner]
  ELSE [st |-> UnknownMessageType, v |-> 0]

\* PhaserBankDeserializeFromBuffer(type, msg, buffer): the length-delimited
\* body is parsed by the ParseProto of the type registered as type.
PhaserBankDeserializeFromBuffer(bank, ty, msg, b) ==
  LET Parsed2(r, body) == [st |-> r.st, msg |-> r.msg, b |-> body.b]
      Got(body) ==
        IF body.st # OK THEN [st |-> body.st, msg |-> msg, b |-> body.b]
        ELSE Parsed2(ParseProto(bank[ty], msg, ProtoBuffer(body.v, b.ub)), body)
  IN  Got(DeserializeLengthDelimited(b))

\* AnyMessage::BuildMessageInstanceInValue: the instance of the type
\* MessageTypeName() names, or the status of the lookup.
BuildMessageInstanceInValue(bank, type_url) ==
  LET Got(binary_size, ty) ==
        IF binary_size.st # OK THEN [st |-> binary_size.st, d |-> NULL]
        ELSE [st |-> OK, d |-> << NewMessage(bank[ty]) >>]
  IN  Got(PhaserBankBinarySize(bank, MessageTypeName(type_url)),
          MessageTypeName(type_url))

\* A pass of the loop of Deserialize whose case 2 looks up the whole type
\* URL, prefix included.
AnyDeserializeIterationWholeUrl(any, bank, b) ==
  LET Failed(st, bb) == [st |-> st, any |-> any, b |-> bb]
      Url(s) ==
        IF s.st # OK THEN Failed(s.st, s.b)
        ELSE [st |-> OK, any |-> [any EXCEPT !.type_url_ = StringOf(s.v)], b |-> s.b]
      Value(ty, d, r) ==
        [st |-> r.st,
         any |-> [any EXCEPT !.type = ty, !.value_ = << r.msg >>],
         b |-> r.b]
      Built(ty, d, bb) ==
        IF d.st # OK THEN [st |-> d.st, any |-> [any EXCEPT !.type = ty], b |-> bb]
        ELSE Value(ty, d, PhaserBankDeserializeFromBuffer(bank, ty, d.d[1], bb))
      Skipped(k) == [st |-> k.st, any |-> any, b |-> k.b]
      Switch(tag, field_number) ==
        CASE field_number = 1 -> Url(DeserializeString(tag.b))
          [] field_number = 2 ->
               Built(any.type_url_,
                     IF any.type_url_ \in DOMAIN bank
                     THEN [st |-> OK, d |-> << NewMessage(bank[any.type_url_]) >>]
                     ELSE [st |-> UnknownMessageType, d |-> NULL],
                     tag.b)
          [] OTHER -> Skipped(SkipTag(tag.b, tag.v))
      Got(tag) ==
        IF tag.st # OK THEN Failed(tag.st, tag.b)
        ELSE Switch(tag, tag.v \div (2 ^ kFieldIdShift))
  IN  Got(DeserializeVarint(b, FALSE))

\* One pass of the body of the while loop of AnyMessage::Deserialize.
AnyDeserializeIteration(any, bank, b) ==
  LET Failed(st, bb) == [st |-> st, any |-> any, b |-> bb]
      Url(s) ==
        IF s.st # OK THEN Failed(s.st, s.b)
        ELSE [st |-> OK, any |-> [any EXCEPT !.type_url_ = StringOf(s.v)], b |-> s.b]
      Value(ty, d, r) ==
        [st |-> r.st,
         any |-> [any EXCEPT !.type = ty, !.value_ = << r.msg >>],
         b |-> r.b]
      Built(ty, d, bb) ==
        IF d.st # OK THEN [st |-> d.st, any |-> [any EXCEPT !.type = ty], b |-> bb]
        ELSE Value(ty, d, PhaserBankDeserializeFromBuffer(bank, ty, d.d[1], bb))
      Skipped(k) == [st |-> k.st, any |-> any, b |-> k.b]
      Switch(tag, field_number) ==
        CASE field_number = 1 -> Url(DeserializeString(tag.b))
          [] field_number = 2 ->
               Built(MessageTypeName(any.type_url_),
                     BuildMessageInstanceInValue(bank, any.type_url_), tag.b)
          [] OTHER -> Skipped(SkipTag(tag.b, tag.v))
      Got(tag) ==
        IF tag.st # OK THEN Failed(tag.st, tag.b)
        ELSE Switch(tag, tag.v \div (2 ^ kFieldIdShift))
  IN  Got(DeserializeVarint(b, FALSE))

\* The records of an Any on the wire: type_url (field 1) with a bare or a
\* prefixed name, registered or not; value (field 2) with the bytes of an
\* Inner, empty, whole or cut; and a record of the undeclared field 3.
MaxAnyItems == 3

AnyUrls ==
  { << >>, << "a" >>, InnerName, Prefix \o << "/" >> \o InnerName,
    Prefix \o << "/", "a" >> }

AnyItems ==
  { Item(1, SerializeLengthDelimited(1, BytesOf(url)), TRUE, FALSE) : url \in AnyUrls }
  \cup { Item(2, SerializeLengthDelimited(2, body), body # Front(InnerWire), FALSE) :
           body \in {<< >>, InnerWire, Front(InnerWire)} }
  \cup { Item(3, SerializeVarint(3, 1, FALSE), FALSE, FALSE) }

AnyItemSeqs == UNION { [1..k -> AnyItems] : k \in 0..MaxAnyItems }

\* ProtoBuffer proto_buffer(bytes); any.Deserialize(proto_buffer) is entered
AnyDeserializeCall ==
  /\ pc = "idle"
  /\ \E its \in AnyItemSeqs, ub \in UBOutcomes :
       /\ items' = its
       /\ buffer' = Wire(its)
       /\ proto_buffer' = ProtoBuffer(Wire(its), ub)
  /\ pc' = "Deserialize"
  /\ UNCHANGED << t, t2, buffer2, ros_buffer, ros_buffer2, status >>
  /\ UNCHANGED << written, v, out >>
  /\ UNCHANGED << mux_vars, gen_vars, any_vars >>

\* while (!buffer.Eof()) { ... }: one pass of the body; an error returns
AnyDeserializeIterate ==
  /\ pc = "Deserialize"
  /\ ~Eof(proto_buffer)
  /\ \E r \in {AnyDeserializeIteration(
                 [type_url_ |-> type_url_, type |-> type, value_ |-> value_],
                 phaser_bank, proto_buffer)} :
       /\ type_url_' = r.any.type_url_
       /\ type' = r.any.type
       /\ value_' = r.any.value_
       /\ proto_buffer' = r.b
       /\ status' = r.st
       /\ pc' = IF r.st = OK THEN "Deserialize" ELSE "return"
  /\ out' = Append(out, proto_buffer.pos)
  /\ UNCHANGED << items, buffer, t, t2, buffer2, ros_buffer, ros_buffer2 >>
  /\ UNCHANGED << written, v, phaser_bank >>
  /\ UNCHANGED << mux_vars, gen_vars >>

\* the loop test fails: return absl::OkStatus()
AnyDeserializeReturn ==
  /\ pc = "Deserialize"
  /\ Eof(proto_buffer)
  /\ status' = OK
  /\ pc' = "return"
  /\ UNCHANGED << items, buffer, t, t2, buffer2, ros_buffer, ros_buffer2 >>
  /\ UNCHANGED << written, v, out, proto_buffer >>
  /\ UNCHANGED << mux_vars, gen_vars, any_vars >>

\* The message types that registered at startup: none, or Inner.
LoopInit ==
  /\ MsgIdle
  /\ MuxIdle
  /\ GenIdle
  /\ BufIdle
  /\ type_url_ = << >>
  /\ type = << >>
  /\ value_ = NULL
  /\ phaser_bank \in {<< >>, Assign(<< >>, InnerName, "Inner")}

LoopNext ==
  \/ ParseProtoCall
  \/ ParseProtoIterate
  \/ ParseProtoReturn
  \/ AnyDeserializeCall
  \/ AnyDeserializeIterate
  \/ AnyDeserializeReturn

\* A call that has begun runs on: the thread in the loop takes its next step.
SpecLoop ==
  /\ LoopInit
  /\ [][LoopNext]_vars
  /\ WF_vars(ParseProtoIterate)
  /\ WF_vars(ParseProtoReturn)
  /\ WF_vars(AnyDeserializeIterate)
  /\ WF_vars(AnyDeserializeReturn)

\* ---------------------------------------------------------------- C24 ----
\* C24: the parse terminates on every finite input. Every pass of the tag
\* loop, of a generated ParseProto and of AnyMessage::Deserialize alike, moves
\* the cursor forward by at least one byte, staying inside the buffer, or
\* returns a status that is not Ok; with the cursor at the end of the buffer
\* the loop returns Ok; so the passes of one call (out holds the cursor at
\* the start of each) are never more than the bytes of the input.
C24_Terminates ==
  /\ [](Len(out) <= Len(buffer))
  /\ [][ (pc \in {"ParseProto", "Deserialize"}) =>
           IF Eof(proto_buffer)
           THEN pc' = "return" /\ status' = OK /\ proto_buffer' = proto_buffer
           ELSE \/ /\ pc' = pc
                   /\ status' = OK
                   /\ proto_buffer'.pos > proto_buffer.pos
                   /\ proto_buffer'.pos <= Len(buffer)
                \/ /\ pc' = "return"
                   /\ status' # OK ]_vars

\* C24 witness: a call that made more than one pass, the last one ending at
\* the end of the buffer after a complete field, and returned Ok.
C24_Witness ==
  /\ pc = "return"
  /\ status = OK
  /\ Len(buffer) > 2
  /\ proto_buffer.pos = Len(buffer)
  /\ Len(out) = 2
  /\ items = << >>
  /\ t.slots[1].present_
  /\ t.slots[3].present_

\* ---------------------------------------------------------------- C25 ----
\* The elements a repeated slot holds.
Elements(fd, f) ==
  CASE fd.kind = "PrimitiveVector" -> f.values_
    [] fd.kind = "StringVector" -> f.strings_
    [] OTHER -> f.msgs_

\* What the records of its[1..k] deliver to slot i when each is parsed by a
\* call of its own, in wire order.
Delivered(S, its, i) ==
  Concat([j \in 1..Len(its) |-> Elements(S[i], Parsed(its[j].wire).msg.slots[i])])

\* C25: repeated fields accumulate. After a ParseProto that returned Ok on
\* records in their declared forms, every repeated field holds the
\* concatenation, in wire order, of the elements each of its records
\* delivers, packed records of varint and of fixed-width elements included.
C25_RepeatedAccumulate ==
  (pc = "t.ParseProto" /\ status = OK /\ DeclaredForms(items))
    => \A i \in 1..Len(Slots(T)) :
         is_repeated(Slots(T)[i])
           => Elements(Slots(T)[i], t.slots[i]) = Delivered(Slots(T), items, i)

\* ---------------------------------------------------------------- C26 ----
\* C26: registry initialisation is safe. No thread is in a lookup that read
\* the map while sato_multiplexers was still null; a lookup that returned
\* gives the unknown-type error for a name that is not registered, so for
\* every name when nothing is registered, and the registered entry for a
\* name whose registration has completed.
C26_RegistryInitSafe ==
  \A th \in Threads :
    /\ lookup[th].at # "crash"
    /\ lookup[th].at = "find" => sato_multiplexers # NULL
    /\ lookup[th].at = "returned" =>
         IF Registered(lookup[th].message_type)
         THEN /\ lookup[th].r.st = OK
              /\ lookup[th].r.info = << sato_multiplexers[1][lookup[th].message_type] >>
         ELSE /\ lookup[th].r.st = UnknownMessageType
              /\ lookup[th].r.info = NULL

\* ---------------------------------------------------------------- C27 ----
\* C27: growth postcondition of an owned buffer. Whenever a Write of a value
\* that needs n bytes returns Ok on an owned buffer, n bytes lay between the
\* cursor and the end of the allocation after HasSpaceFor(n), for every n,
\* those beyond the capacity included; the bytes written before are still
\* there and the cursor moved by n only; the capacity did not decrease; the
\* write stored nothing beyond the allocation.
C27_GrowthPostcondition ==
  [][ (pc' = "Write" /\ ros_buffer.owned_ /\ status' = OK)
        => /\ ros_buffer.addr_ + Needed(Last(written')) <= ros_buffer'.size_
           /\ ros_buffer'.size_ >= ros_buffer.size_
           /\ SubSeq(ros_buffer'.mem, 1, ros_buffer.addr_) = ros_buffer.mem
           /\ ros_buffer'.addr_ = ros_buffer.addr_ + Needed(Last(written'))
           /\ ~ros_buffer'.overrun ]_vars

\* ---------------------------------------------------------------- C28 ----
\* The record of the input at which the cursor of proto_buffer stands.
CurItem ==
  items[CHOOSE j \in 1..Len(items) :
          Len(Wire(SubSeq(items, 1, j - 1))) = proto_buffer.pos]

\* C28: the Any parse depends on the order of the sub-fields. In the pass
\* that meets sub-field 2 (value) the lookup key is the name in the type_url
\* parsed so far, prefix stripped. With no type_url parsed yet, the key is
\* the empty string and Deserialize returns the unknown-type error, as it
\* does for every name that is not registered; with a type_url parsed before
\* that names a registered type, the instance is built in value_ and parsed,
\* and the pass succeeds when the bytes of the value are well-formed.
C28_AnyOrder ==
  [][ (pc = "Deserialize" /\ ~Eof(proto_buffer) /\ CurItem.n = 2)
        => /\ type' = MessageTypeName(type_url_)
           /\ type_url_' = type_url_
           /\ type_url_ = << >> => type' = << >>
           /\ IF type' \in DOMAIN phaser_bank
              THEN /\ value_' # NULL
                   /\ CurItem.ref => status' = OK /\ pc' = "Deserialize"
                   /\ ~CurItem.ref => status' # OK /\ pc' = "return"
              ELSE /\ status' = UnknownMessageType
                   /\ pc' = "return"
                   /\ value_' = value_ ]_vars

\* C28 witness: type_url first, with the prefix and the registered name,
\* then the value: the call returned Ok with the Inner parsed into value_.
C28_Witness ==
  /\ pc = "return"
  /\ status = OK
  /\ Len(items) = 2
  /\ items[1].n = 1
  /\ items[2].n = 2
  /\ type_url_ = Prefix \o << "/" >> \o InnerName
  /\ type = InnerName
  /\ value_ = << ParseProto("Inner", NewMessage("Inner"),
                         ProtoBuffer(InnerWire, "silent")).msg >>
  /\ value_[1].slots[2].value_ = 5

\* ---------------------------------------------------------------- C29 ----
\* The payload of the length-delimited record whose one-byte tag is at the
\* cursor.
PayloadAt(b) == DeserializeLengthDelimited([b EXCEPT !.pos = @ + 1])

\* C29: the packed fixed-width parse stays in bounds. A pass of ParseProto
\* over a tag of field 10 (repeated sfixed32, packed) whose payload length
\* is not a multiple of the element size does not store beyond the resized
\* value sequence: it returns an error, or it returns Ok having copied whole
\* elements only.
C29_PackedFixedInBounds ==
  [][ (/\ pc = "ParseProto"
       /\ ~Eof(proto_buffer)
       /\ proto_buffer.data[proto_buffer.pos + 1] \div (2 ^ kFieldIdShift) = 10
       /\ PayloadAt(proto_buffer).st = OK
       /\ Len(PayloadAt(proto_buffer).v) % SizeofT # 0)
        => /\ status' # "crash"
           /\ status' = OK =>
                Len(t'.slots[9].values_) * SizeofT <= Len(PayloadAt(proto_buffer).v) ]_vars

\* ================================================== zero-run compaction ====
kZeroMarker == 250

kMaxZeroes == kZeroMarker + 1

\* A fresh owned buffer in compact mode: int num_zeroes_ = 0.
CompactBuffer ==
  [owned_ |-> TRUE, size_ |-> kInitialSize, mem |-> << >>, addr_ |-> 0,
   overrun |-> FALSE, ub |-> "silent", num_zeroes_ |-> 0]

\* Buffer::FlushZeroes: a single zero as itself, a longer run as the marker
\* and the count less two in one byte.
FlushZeroes(b) ==
  LET Stored(h, bytes) ==
        IF h.st # OK THEN h
        ELSE [st |-> OK, b |-> [Store(h.b, bytes) EXCEPT !.num_zeroes_ = 0]]
  IN  IF b.num_zeroes_ > 0
      THEN IF b.num_zeroes_ = 1 THEN Stored(HasSpaceFor(b, 1), << 0 >>)
           ELSE Stored(HasSpaceFor(b, 2),
                       << kZeroMarker, (b.num_zeroes_ - 2) % 256 >>)
      ELSE [st |-> OK, b |-> b]

\* A Put that counts zeroes without the limit of kMaxZeroes.
PutUnbounded(b, ch) ==
  LET Counted(f) ==
        IF f.st # OK THEN f
        ELSE [st |-> OK, b |-> [f.b EXCEPT !.num_zeroes_ = @ + 1]]
      Stored(h, bytes) ==
        IF h.st # OK THEN h ELSE [st |-> OK, b |-> Store(h.b, bytes)]
      Flushed(f) ==
        IF f.st # OK THEN f
        ELSE IF ch = kZeroMarker
        THEN Stored(HasSpaceFor(f.b, 2), << kZeroMarker, kZeroMarker >>)
        ELSE Stored(HasSpaceFor(f.b, 1), << ch >>)
  IN  IF ch = 0 THEN Counted([st |-> OK, b |-> b])
      ELSE Flushed(FlushZeroes(b))

\* Buffer::Put
Put(b, ch) ==
  LET Counted(f) ==
        IF f.st # OK THEN f
        ELSE [st |-> OK, b |-> [f.b EXCEPT !.num_zeroes_ = @ + 1]]
      Stored(h, bytes) ==
        IF h.st # OK THEN h ELSE [st |-> OK, b |-> Store(h.b, bytes)]
      Flushed(f) ==
        IF f.st # OK THEN f
        ELSE IF ch = kZeroMarker
        THEN Stored(HasSpaceFor(f.b, 2), << kZeroMarker, kZeroMarker >>)
        ELSE Stored(HasSpaceFor(f.b, 1), << ch >>)
  IN  IF ch = 0
      THEN Counted(IF b.num_zeroes_ = kMaxZeroes THEN FlushZeroes(b)
                   ELSE [st |-> OK, b |-> b])
      ELSE Flushed(FlushZeroes(b))

\* Buffer::Rewind
Rewind(b) == [b EXCEPT !.addr_ = 0]

\* uint8_t(*addr_): the byte stored there, or, in the part of the allocation
\* nothing was stored in, whatever the memory holds.
ByteAt(b, junk) == IF b.addr_ < Len(b.mem) THEN b.mem[b.addr_ + 1] ELSE junk

\* Buffer::Get
Get(b, junk) ==
  LET Next1(bb) == [bb EXCEPT !.addr_ = @ + 1]
      Second(bb, ch) ==
        IF ch = kZeroMarker THEN [st |-> OK, v |-> kZeroMarker, b |-> Next1(bb)]
        ELSE [st |-> OK, v |-> 0, b |-> [Next1(bb) EXCEPT !.num_zeroes_ = ch + 1]]
      First(bb, ch) ==
        IF ch = kZeroMarker
        THEN IF ~Check(bb, 1) THEN [st |-> "Internal", v |-> 0, b |-> bb]
             ELSE Second(bb, ByteAt(bb, junk))
        ELSE [st |-> OK, v |-> ch, b |-> bb]
  IN  IF b.num_zeroes_ > 0
      THEN [st |-> OK, v |-> 0, b |-> [b EXCEPT !.num_zeroes_ = @ - 1]]
      ELSE IF ~Check(b, 1) THEN [st |-> "Internal", v |-> 0, b |-> b]
      ELSE First(Next1(b), ByteAt(b, junk))

\* The byte sequences s: every short sequence of zeroes, ordinary bytes and
\* markers; runs of zeroes around kMaxZeroes and twice that, alone or between
\* an ordinary byte or a marker; and a sequence longer than the buffer.
MaxShort == 4

MaxEnd == 1

Zeroes(n) == [i \in 1..n |-> 0]

ZeroRuns ==
  {kMaxZeroes - 1, kMaxZeroes, kMaxZeroes + 1, kMaxZeroes + 2,
   2 * kMaxZeroes, 2 * kMaxZeroes + 1}

Ends == UNION { [1..k -> {1, kZeroMarker}] : k \in 0..MaxEnd }

ZeroInputs ==
  UNION { [1..k -> {0, 1, kZeroMarker}] : k \in 0..MaxShort }
  \cup { p \o Zeroes(n) \o q : p \in Ends, n \in ZeroRuns, q \in Ends }
  \cup { [i \in 1..(kInitialSize + 1) |-> 1] }

ZeroInit ==
  /\ v \in ZeroInputs
  /\ ros_buffer = CompactBuffer
  /\ written = << >>
  /\ out = << >>
  /\ proto_buffer = ProtoBuffer(<< >>, "silent")
  /\ items = << >>
  /\ buffer = << >>
  /\ t = NewMessage("TestMessage")
  /\ t2 = NewMessage("TestMessage")
  /\ ros_buffer2 = OwnedBuffer
  /\ buffer2 = << >>
  /\ status = OK
  /\ pc = "start"
  /\ MuxIdle
  /\ GenIdle
  /\ AnyIdle

\* ros_buffer.Put(v[i]) for the next byte of v
BufPut ==
  /\ pc \in {"start", "Put"}
  /\ status = OK
  /\ Len(written) < Len(v)
  /\ \E w \in {Put(ros_buffer, v[Len(written) + 1])} :
       /\ ros_buffer' = w.b
       /\ status' = w.st
  /\ written' = Append(written, v[Len(written) + 1])
  /\ pc' = "Put"
  /\ UNCHANGED << items, buffer, t, t2, buffer2, ros_buffer2, v, out, proto_buffer >>
  /\ UNCHANGED << mux_vars, gen_vars, any_vars >>

\* ros_buffer.FlushZeroes() after the last byte
BufFlushZeroes ==
  /\ pc \in {"start", "Put"}
  /\ status = OK
  /\ Len(written) = Len(v)
  /\ \E w \in {FlushZeroes(ros_buffer)} :
       /\ ros_buffer' = w.b
       /\ status' = w.st
  /\ pc' = "FlushZeroes"
  /\ UNCHANGED << items, buffer, t, t2, buffer2, ros_buffer2, v, out, proto_buffer >>
  /\ UNCHANGED written
  /\ UNCHANGED << mux_vars, gen_vars, any_vars >>

\* ros_buffer.Rewind()
BufRewind ==
  /\ pc = "FlushZeroes"
  /\ status = OK
  /\ ros_buffer' = Rewind(ros_buffer)
  /\ pc' = "Rewind"
  /\ UNCHANGED << items, buffer, t, t2, buffer2, ros_buffer2, v, out, proto_buffer >>
  /\ UNCHANGED << written, status >>
  /\ UNCHANGED << mux_vars, gen_vars, any_vars >>

\* ros_buffer.Get(ch), one of the Len(v) calls
BufGet ==
  /\ pc \in {"Rewind", "Get"}
  /\ status = OK
  /\ Len(out) < Len(v)
  /\ \E junk \in {0, 1, kZeroMarker} :
       \E r \in {Get(ros_buffer, junk)} :
         /\ ros_buffer' = r.b
         /\ status' = r.st
         /\ out' = IF r.st = OK THEN Append(out, r.v) ELSE out
  /\ pc' = "Get"
  /\ UNCHANGED << items, buffer, t, t2, buffer2, ros_buffer2, v, written, proto_buffer >>
  /\ UNCHANGED << mux_vars, gen_vars, any_vars >>

ZeroNext ==
  \/ BufPut
  \/ BufFlushZeroes
  \/ BufRewind
  \/ BufGet

SpecZero == ZeroInit /\ [][ZeroNext]_vars

\* ---------------------------------------------------------------- C30 ----
\* C30: zero-run compaction round trip. For every byte sequence v put byte by
\* byte and flushed, the Len(v) calls of Get after Rewind all return Ok and
\* return v, byte for byte; while writing, the count of pending zeroes never
\* exceeds kMaxZeroes, so the count byte stored after a marker is never the
\* marker itself; nothing is stored beyond the allocation.
C30_ZeroRunRoundTrip ==
  /\ ros_buffer.num_zeroes_ <= kMaxZeroes
  /\ ros_buffer.num_zeroes_ >= 2 => (ros_buffer.num_zeroes_ - 2) % 256 # kZeroMarker
  /\ ~ros_buffer.overrun
  /\ status = OK
  /\ pc = "Get" => out = SubSeq(v, 1, Len(out))
  /\ pc = "Rewind" => ros_buffer.num_zeroes_ = 0

\* C30 witness: a run of zeroes longer than kMaxZeroes between two markers
\* has been put, flushed and read back whole.
C30_Witness ==
  /\ pc = "Get"
  /\ Len(out) = Len(v)
  /\ out = << kZeroMarker >> \o Zeroes(kMaxZeroes + 2) \o << kZeroMarker >>
  /\ ros_buffer.addr_ = Len(ros_buffer.mem)
====
